---- MODULE Spec2Model ----
(***************************************************************************)
(* Behavioural model of the dlt_logger / tp_logger repository.             *)
(*                                                                         *)
(* Part I  (SpecConn): the connection manager of src/logger.py and         *)
(*          src/tp_logger/core.py: the module-global _db_connection, the   *)
(*          retry loop of get_db_connection, the table bootstrap, and the  *)
(*          handlers (DatabaseLogHandler / core TPLogger) that insert      *)
(*          through the handle they were given.                            *)
(* Part II (SpecPipe): the pipeline singleton of                           *)
(*          src/{tp_logger,dlt_logger}/dlt/pipeline.py, the global         *)
(*          configuration of src/dlt_logger/setup/config.py and the        *)
(*          TPLogger facade of src/tp_logger/logging/logger.py.            *)
(* Part III (SpecAth): the transfer to Athena of                           *)
(*          src/{tp_logger,dlt_logger}/dlt/athena.py (transfer_to_athena)  *)
(*          and src/tp_logger/athena.py (upload_to_athena).                *)
(***************************************************************************)
EXTENDS Integers, Sequences, FiniteSets, TLC

(***************************************************************************)
(* Bounds of the exploration.                                              *)
(***************************************************************************)
MaxRetriesBound == 3    \* max_retries arguments are drawn from 0..MaxRetriesBound
MaxSteps == 4           \* operations (calls made by the application) per behaviour
MaxRows == 5            \* rows of job_logs in the store a resource reads
MaxBatch == 3           \* batch_size arguments are drawn from 1..MaxBatch

(***************************************************************************)
(* Program constants.                                                      *)
(***************************************************************************)
DefaultMaxRetries == 3  \* get_db_connection(..., max_retries: int = 3)

Paths == {"p", "q"}                 \* resolved database paths
Impls == {"logger", "core"}         \* src/logger.py, src/tp_logger/core.py
Levels == {"DEBUG", "INFO", "WARNING", "ERROR", "CRITICAL"}

\* An error message is modelled by the substrings the classifier looks for
\* in str(e).lower(): one with "lock", one with "conflicting" only, one with
\* neither.
ErrorMessages ==
    { [lock |-> TRUE, conflicting |-> FALSE],
      [lock |-> FALSE, conflicting |-> TRUE],
      [lock |-> FALSE, conflicting |-> FALSE] }

\* _db_connection = None
NoConn == [id |-> 0, path |-> "-"]

VARIABLES
    impl,            \* which of the two connection managers is running
    db_connection,   \* the module global _db_connection
    pc,              \* "idle" or "loop" (inside the retry loop of a call)
    call,            \* arguments of the get_db_connection call in progress / last made
    attempt,         \* loop variable of the retry loop
    trace,           \* what the call in progress / last call did, in order
    ret,             \* value returned by the last completed call
    handlers,        \* DatabaseLogHandler (or core TPLogger) instances, in creation order
    store,           \* rows of job_logs in the database file at each path
    tableExists,     \* whether job_logs exists in the database file at each path
    lastLog,         \* what the last log_to_db call did
    raised,          \* TRUE iff the last operation let an exception escape
    lastOp,          \* the operation that ran last
    steps            \* number of operations started so far

\* the connection manager's own state
connOnly == <<impl, db_connection, pc, call, attempt, trace, ret, handlers, store,
              tableExists, lastLog>>

VARIABLES
    variant,         \* which pipeline module is running: "tp_logger" or "dlt_logger"
    config,          \* the module global _config
    pipeline,        \* the module global _pipeline
    builtTotal,      \* pipelines constructed so far
    builtSinceSetup, \* pipelines constructed since the last setup_logging
    returned,        \* pipelines get_pipeline has returned since the last setup_logging
    retPipe,         \* value returned by the last completed get_pipeline
    loggers,         \* TPLogger instances, in creation order
    tables,          \* rows of the logical table of each (db_path, dataset_name)
    written,         \* history: the records whose pipeline.run returned normally, per target
    lastCall,        \* what the last facade call did
    failures,        \* history: the loggers that have had a pipeline.run raise
    RUN_ID,          \* the module global RUN_ID = uuid4(), set at import
    console          \* the console sink: the records loguru has emitted, in order

pipeVars == <<variant, config, pipeline, builtTotal, builtSinceSetup, returned,
              retPipe, loggers, tables, written, lastCall, failures, RUN_ID,
              console>>

VARIABLES
    athImpl,         \* which transfer function runs (see AthImpls)
    athCfg,          \* the Athena attributes of the configuration (TRUE: set)
    athFile,         \* os.path.exists(config.db_path)
    athFileAtCall,   \* history: athFile when the current transfer was called
    srcTables,       \* the tables of the local dataset's schema, in schema order
    athPc,           \* position of the running transfer
    athTrace,        \* what the current or last transfer did, in order
    athResult,       \* how the last transfer ended
    athTodo,         \* the tables the upload loop has not reached yet
    athDest          \* the uploads the destination has accepted, in order

VARIABLES
    resRows,         \* the rows of {dataset_name}.job_logs in the embedded store
    resB,            \* batch_size of the running job_logs_resource
    resPos,          \* rows the cursor of the running resource has returned
    resBatches,      \* the batches the running / last resource has yielded, in order
    resPc,           \* "idle", "reading" (inside the fetch loop) or "loading"
    resDest,         \* the rows of job_logs at the destination
    resLoads         \* history: the loads the destination has accepted

\* the resource's own state (not the store it reads)
resOnly == <<resB, resPos, resBatches, resPc, resDest, resLoads>>

resVars == <<resRows, resOnly>>

VARIABLES
    wfConfig,        \* WorkflowManager.config: the Athena attributes of the captured configuration
    wfStep4,         \* how step_4_transfer_to_athena last went ("absent": no manager)
    dbInfo           \* what get_database_info_from_config last returned

wfVars == <<wfConfig, wfStep4, dbInfo>>

VARIABLES
    entry            \* the last LogEntry(...) construction: its arguments and its outcome

VARIABLES
    lastSetup,       \* the last setup_logging(kwargs...) call: its arguments and its outcome
    wrap,            \* the last call of a log_execution wrapper or timed_operation block
    wfRun,           \* the running / last run_complete_workflow call
    sink             \* the loguru console sink: its minimum level and what it printed

\* the state of the later parts
extRest == <<entry, lastSetup, wrap, wfRun>>

extVars == <<extRest, sink>>

\* the transfer's state but the Athena attributes of the configuration
athFrame == <<athImpl, athFile, athFileAtCall, srcTables, athPc, athTrace, athResult,
              athTodo, athDest, resVars, wfVars, extVars>>

athVars == <<athImpl, athCfg, athFile, athFileAtCall, srcTables, athPc, athTrace, athResult,
             athTodo, athDest, resVars, wfVars, extVars>>

\* the same two without the console sink
athFrameNoSink == <<athImpl, athFile, athFileAtCall, srcTables, athPc, athTrace, athResult,
                    athTodo, athDest, resVars, wfVars, extRest>>

athNoSink == <<athCfg, athFrameNoSink>>

vars == <<connOnly, pipeVars, athVars, raised, lastOp, steps>>

RECURSIVE Pow2(_)
Pow2(n) == IF n = 0 THEN 1 ELSE 2 * Pow2(n - 1)

NoErr == [lock |-> FALSE, conflicting |-> FALSE]

\* One entry of the trace of a call: what happened, a number (the attempt,
\* or the seconds slept / announced), and for a failed open the error raised.
Ev(e, n) == [ev |-> e, n |-> n, err |-> NoErr]

EvFail(n, e) == [ev |-> "connect_fail", n |-> n, err |-> e]

\* "lock" in str(e).lower() or "conflicting" in str(e).lower()
IsLockErrorLogger(e) == e.lock \/ e.conflicting

\* "lock" in str(e).lower()
IsLockErrorCore(e) == e.lock

IsLockError(e) == IF impl = "logger" THEN IsLockErrorLogger(e) ELSE IsLockErrorCore(e)

\* Variant: gives up one attempt too early.
ShouldRetryEarly(e, a, m) == IsLockError(e) /\ a < m - 2

\* Variant: retries whatever the error is.
ShouldRetryAny(e, a, m) == a < m - 1

\* if <lock-classified>: if attempt < max_retries - 1: ... continue
\* (src/tp_logger/core.py: if "lock" in ... and attempt < max_retries - 1)
ShouldRetry(e, a, m) == IsLockError(e) /\ a < m - 1

\* Variant: the backoff starts at 2 seconds.
WaitTimeDoubled(a) == Pow2(a + 1)

\* Variant: linear instead of exponential backoff.
WaitTimeLinear(a) == 2 * a

\* wait_time = 2 ** attempt
WaitTime(a) == Pow2(a)

\* if not self.db_available or not self.connection: return   (src/logger.py)
\* if not self.connection: return                            (src/tp_logger/core.py)
SkipInsert(h) ==
    IF impl = "logger" THEN (~h.db_available) \/ h.connection = NoConn
                       ELSE h.connection = NoConn

\* self.connection = get_db_connection(db_path); self.db_available = self.connection is not None
NewHandler(c, r) ==
    [db_path |-> c.path, connection |-> r, db_available |-> (r # NoConn)]

HandlersAfter(c, r) ==
    IF c.caller = "handler" THEN Append(handlers, NewHandler(c, r)) ELSE handlers

NoLog == [handler |-> 0, skipped |-> FALSE, failed |-> FALSE]

ConnStart(impls) ==
    /\ impl \in impls
    /\ db_connection = NoConn
    /\ pc = "idle"
    /\ call = [path |-> "p", max_retries |-> DefaultMaxRetries, caller |-> "direct"]
    /\ attempt = 0
    /\ trace = <<>>
    /\ ret = NoConn
    /\ handlers = <<>>
    /\ store = [p \in Paths |-> <<>>]
    /\ tableExists = [p \in Paths |-> FALSE]
    /\ lastLog = NoLog
    /\ raised = FALSE
    /\ lastOp = "init"
    /\ steps = 0

Datasets == {"d1", "d2"}
Variants == {"tp_logger", "dlt_logger"}   \* src/tp_logger/dlt, src/dlt_logger/dlt
TableNames == {"job_logs", "log_events"}   \* values of config.table_name
Targets == Paths \X Datasets \X TableNames

\* athena_destination: bool = False and the coordinates = None
NoAthena == [athena_destination |-> FALSE, aws_region |-> FALSE,
             athena_database |-> FALSE, athena_s3_staging_bucket |-> FALSE]

\* _config = None
NoConfig == [db_path |-> "-", dataset_name |-> "-", console_logging |-> FALSE,
             athena |-> NoAthena, table_name |-> "-", log_level |-> "-",
             project_name |-> "-"]

\* the LoggerConfig values explored: they differ in the path, in the dataset
\* and in the console switch
Configs ==
    { [db_path |-> "p", dataset_name |-> "d1", console_logging |-> TRUE,
        athena |-> NoAthena, table_name |-> "job_logs", log_level |-> "INFO",
        project_name |-> "app"],
      [db_path |-> "q", dataset_name |-> "d1", console_logging |-> FALSE,
        athena |-> NoAthena, table_name |-> "job_logs", log_level |-> "INFO",
        project_name |-> "app"],
      [db_path |-> "p", dataset_name |-> "d2", console_logging |-> TRUE,
        athena |-> NoAthena, table_name |-> "job_logs", log_level |-> "INFO",
        project_name |-> "app"] }

\* _pipeline = None
NoPipeline == [id |-> 0, db_path |-> "-", dataset_name |-> "-"]

\* no LogEntry was built
NoRec == [id |-> 0]

NoArgs == [level |-> "none", success |-> "none", action |-> "none", exc |-> "none"]

NoCall == [logger |-> 0, events |-> <<>>, valid |-> FALSE, args |-> NoArgs,
           rec |-> NoRec]

PipeStart(variants) ==
    /\ variant \in variants
    /\ config = NoConfig
    /\ pipeline = NoPipeline
    /\ builtTotal = 0
    /\ builtSinceSetup = 0
    /\ returned = {}
    /\ retPipe = NoPipeline
    /\ loggers = <<>>
    /\ tables = [t \in Targets |-> <<>>]
    /\ written = [t \in Targets |-> <<>>]
    /\ lastCall = NoCall
    /\ failures = {}
    /\ RUN_ID = 1
    /\ console = <<>>

\* src/dlt_logger/dlt/athena.py transfer_to_athena, src/tp_logger/dlt/athena.py
\* transfer_to_athena, src/tp_logger/athena.py upload_to_athena
AthImpls == {"dlt_logger", "tp_logger_dlt", "upload"}

\* config.athena_destination, and whether aws_region, athena_database and
\* athena_s3_staging_bucket are set (tests assign the attributes directly)
AthConfigs ==
    [athena_destination : BOOLEAN, aws_region : BOOLEAN, athena_database : BOOLEAN,
     athena_s3_staging_bucket : BOOLEAN]

\* duckdb_dataset.schema.tables.keys()
SourceTables ==
    {<<"job_logs">>, <<"job_logs", "_dlt_loads">>, <<"_dlt_loads", "events", "job_logs">>}

AthStart(impls, cfgs, files, tabs) ==
    /\ athImpl \in impls
    /\ athCfg \in cfgs
    /\ athFile \in files
    /\ athFileAtCall = athFile
    /\ srcTables \in tabs
    /\ athPc = "idle"
    /\ athTrace = <<>>
    /\ athResult = "none"
    /\ athTodo = <<>>
    /\ athDest = <<>>

\* a row of job_logs as the store returns it: the row id dlt gave it when
\* it was loaded and the value of its level column
Row(k, level) == [dlt_id |-> k, level |-> level]

\* a Python value: its type, the text of a scalar, the items of a container
\* (pairs of a key and a value, both scalars; a list has its indexes as keys)
Py(t, str, items) == [t |-> t, s |-> str, items |-> items]

Scalar(t, str) == [t |-> t, s |-> str]

PyNone == Py("none", "", {})

\* a value passed as status_code or duration_ms: None, an int or a str
Num(t, n, str) == [t |-> t, n |-> n, s |-> str]

NumNone == Num("none", 0, "")

\* status_code and duration_ms are not passed: both take the default None
NoNumbers == [status_code |-> [given |-> FALSE, v |-> NumNone],
              duration_ms |-> [given |-> FALSE, v |-> NumNone],
              rec_status_code |-> NumNone, rec_duration_ms |-> NumNone,
              errors |-> {}]

\* no LogEntry has been constructed
NoEntry == [model |-> "-", level |-> [given |-> FALSE, v |-> ""],
            context |-> [given |-> FALSE, v |-> PyNone],
            ok |-> FALSE, fields |-> {}, rec_level |-> "", rec_context |-> PyNone,
            numbers |-> NoNumbers]

\* loguru as imported: one handler with level DEBUG; nothing printed yet
DefaultSink == [level |-> "DEBUG", shown |-> <<>>]

\* run_complete_workflow has not been called
NoRun == [pc |-> "idle", ran |-> <<>>, entries |-> <<>>, overall_success |-> FALSE,
          returned |-> FALSE]

\* no wrapper has been called
NoWrap == [kind |-> "-", kw |-> {}, body |-> "-", result |-> "-", ran |-> FALSE,
           emitted |-> <<>>, outcome |-> "-", exc |-> "-", value |-> "-"]

\* setup_logging has not been called with keyword arguments
NoSetup == [called |-> FALSE, kwargs |-> <<>>, error |-> "none"]

\* get_database_info_from_config has not been called
NoInfo == [error |-> FALSE, exists |-> FALSE, has_total |-> FALSE, total_logs |-> 0]

\* no resource is running, the store holds the given rows
ResStart(rows) ==
    /\ resRows \in rows
    /\ resB = 0
    /\ resPos = 0
    /\ resBatches = <<>>
    /\ resPc = "idle"
    /\ resDest = <<>>
    /\ resLoads = 0
    /\ wfConfig = NoAthena
    /\ wfStep4 = "absent"
    /\ dbInfo = NoInfo
    /\ entry = NoEntry
    /\ lastSetup = NoSetup
    /\ wrap = NoWrap
    /\ wfRun = NoRun
    /\ sink = DefaultSink

\* no transfer is configured
AthOff ==
    /\ AthStart({"upload"},
                {[athena_destination |-> FALSE, aws_region |-> FALSE,
                  athena_database |-> FALSE, athena_s3_staging_bucket |-> FALSE]},
                {FALSE}, {<<"job_logs">>})
    /\ ResStart({<<>>})

InitConn == ConnStart(Impls) /\ PipeStart({"dlt_logger"}) /\ AthOff

\* The arguments a call can be made with: a direct call passes any
\* max_retries, a handler's constructor passes the default.
CallArgs ==
    [path : Paths, max_retries : 0..MaxRetriesBound, caller : {"direct"}]
    \cup [path : Paths, max_retries : {DefaultMaxRetries}, caller : {"handler"}]

\* Variant: the "if _db_connection is None" guard is missing, the store is
\* opened again on every call.
GetDbConnectionReopen(c) ==
    /\ UNCHANGED <<pipeVars, athVars>>
    /\ pc = "idle" /\ steps < MaxSteps
    /\ db_connection # NoConn
    /\ call' = c
    /\ steps' = steps + 1
    /\ trace' = <<Ev("connect_ok", 0), Ev("bootstrap_ok", 0)>>
    /\ db_connection' = [id |-> db_connection.id + 1, path |-> c.path]
    /\ ret' = db_connection'
    /\ raised' = FALSE
    /\ handlers' = HandlersAfter(c, db_connection')
    /\ lastOp' = "get_db_connection"
    /\ UNCHANGED <<impl, pc, attempt, store, tableExists, lastLog>>

\* if _db_connection is None: ... (skipped) ; return _db_connection
GetDbConnectionCached(c) ==
    /\ UNCHANGED <<pipeVars, athVars>>
    /\ pc = "idle" /\ steps < MaxSteps
    /\ db_connection # NoConn
    /\ call' = c
    /\ steps' = steps + 1
    /\ trace' = <<>>
    /\ ret' = db_connection
    /\ raised' = FALSE
    /\ handlers' = HandlersAfter(c, db_connection)
    /\ lastOp' = "get_db_connection"
    /\ UNCHANGED <<impl, db_connection, pc, attempt, store, tableExists, lastLog>>

\* os.makedirs(os.path.dirname(db_path), exist_ok=True) raises: it is outside
\* the try block, the exception leaves get_db_connection (and the
\* constructor that called it).
GetDbConnectionMakedirsFails(c) ==
    /\ UNCHANGED <<pipeVars, athVars>>
    /\ pc = "idle" /\ steps < MaxSteps
    /\ db_connection = NoConn
    /\ call' = c
    /\ steps' = steps + 1
    /\ trace' = <<Ev("makedirs_raise", 0)>>
    /\ raised' = TRUE
    /\ lastOp' = "get_db_connection"
    /\ UNCHANGED <<impl, db_connection, pc, attempt, ret, handlers, store,
                   tableExists, lastLog>>

\* The directory exists; enter "for attempt in range(max_retries)".  With
\* max_retries = 0 the loop body never runs and None is returned.
GetDbConnectionStart(c) ==
    /\ UNCHANGED <<pipeVars, athVars>>
    /\ pc = "idle" /\ steps < MaxSteps
    /\ db_connection = NoConn
    /\ call' = c
    /\ steps' = steps + 1
    /\ trace' = <<>>
    /\ raised' = FALSE
    /\ attempt' = 0
    /\ IF c.max_retries = 0
         THEN /\ pc' = "idle"
              /\ ret' = NoConn
              /\ handlers' = HandlersAfter(c, NoConn)
         ELSE /\ pc' = "loop"
              /\ UNCHANGED <<ret, handlers>>
    /\ lastOp' = "get_db_connection"
    /\ UNCHANGED <<impl, db_connection, store, tableExists, lastLog>>

\* duckdb.connect succeeds; _ensure_job_logs_table runs CREATE TABLE IF NOT
\* EXISTS and swallows its failure; break; return _db_connection.
ConnectSucceeds(tableOk) ==
    /\ UNCHANGED <<pipeVars, athVars>>
    /\ pc = "loop"
    /\ LET h == [id |-> 1, path |-> call.path]
           t1 == Append(trace, Ev("connect_ok", attempt))
           t2 == IF tableOk THEN Append(t1, Ev("bootstrap_ok", attempt))
                            ELSE Append(Append(t1, Ev("bootstrap_fail", attempt)),
                                        Ev("print_table_failed", attempt))
           t3 == IF attempt > 0 THEN Append(t2, Ev("print_connected", attempt + 1))
                                ELSE t2
       IN /\ db_connection' = h
          /\ trace' = t3
          /\ ret' = h
          /\ handlers' = HandlersAfter(call, h)
    /\ tableExists' = IF tableOk THEN [tableExists EXCEPT ![call.path] = TRUE]
                                 ELSE tableExists
    /\ pc' = "idle"
    /\ UNCHANGED <<impl, call, attempt, raised, steps, store, lastLog, lastOp>>

\* duckdb.connect raises and the error is retried: print the diagnostic,
\* time.sleep(wait_time), continue.  When range(max_retries) is used up the
\* loop ends and _db_connection (still None) is returned.
ConnectLockedRetry(e) ==
    /\ UNCHANGED <<pipeVars, athVars>>
    /\ pc = "loop"
    /\ ShouldRetry(e, attempt, call.max_retries)
    /\ trace' = trace \o <<EvFail(attempt, e),
                           Ev("print_retry", WaitTime(attempt)),
                           Ev("sleep", WaitTime(attempt))>>
    /\ attempt' = attempt + 1
    /\ IF attempt + 1 < call.max_retries
         THEN UNCHANGED <<pc, ret, handlers>>
         ELSE /\ pc' = "idle"
              /\ ret' = db_connection
              /\ handlers' = HandlersAfter(call, db_connection)
    /\ UNCHANGED <<impl, db_connection, call, raised, steps, store, tableExists,
                   lastLog, lastOp>>

\* duckdb.connect raises and the loop gives up: a lock-classified error on
\* the last attempt, or any other error on any attempt.  Diagnostics are
\* printed, _db_connection = None, break, return None.
ConnectFailsGiveUp(e) ==
    /\ UNCHANGED <<pipeVars, athVars>>
    /\ pc = "loop"
    /\ ~ShouldRetry(e, attempt, call.max_retries)
    /\ trace' = trace \o <<EvFail(attempt, e),
                           IF IsLockError(e) THEN Ev("print_exhausted", call.max_retries)
                                             ELSE Ev("print_error", attempt)>>
    /\ db_connection' = NoConn
    /\ ret' = NoConn
    /\ handlers' = HandlersAfter(call, NoConn)
    /\ pc' = "idle"
    /\ UNCHANGED <<impl, call, attempt, raised, steps, store, tableExists, lastLog,
                   lastOp>>

\* DatabaseLogHandler.log_to_db (src/logger.py) and TPLogger._log_to_db
\* (src/tp_logger/core.py) on handler number i.  The INSERT goes through the
\* handle the handler holds; it fails when there is no handle, when job_logs
\* does not exist, when the level violates the CHECK constraint, or when the
\* engine reports an error.  The failure is caught and printed; src/logger.py
\* also clears db_available.
LogToDb(i, level, engineOk) ==
    /\ UNCHANGED <<pipeVars, athVars>>
    /\ pc = "idle" /\ steps < MaxSteps
    /\ i \in 1..Len(handlers)
    /\ LET h == handlers[i]
           skip == SkipInsert(h)
           ok == /\ h.connection # NoConn
                 /\ tableExists[h.connection.path]
                 /\ level \in Levels
                 /\ engineOk
       IN /\ lastLog' = [handler |-> i, skipped |-> skip, failed |-> (~skip /\ ~ok)]
          /\ IF skip
               THEN UNCHANGED <<store, handlers>>
               ELSE IF ok
                 THEN /\ store' = [store EXCEPT ![h.connection.path] =
                                     Append(@, [handler |-> i, level |-> level])]
                      /\ UNCHANGED handlers
                 ELSE /\ UNCHANGED store
                      /\ handlers' = IF impl = "logger"
                                       THEN [handlers EXCEPT ![i].db_available = FALSE]
                                       ELSE handlers
    /\ steps' = steps + 1
    /\ raised' = FALSE
    /\ lastOp' = "log_to_db"
    /\ UNCHANGED <<impl, db_connection, pc, call, attempt, trace, ret, tableExists>>

NextConn ==
    \/ \E c \in CallArgs : GetDbConnectionCached(c)
    \/ \E c \in CallArgs : GetDbConnectionMakedirsFails(c)
    \/ \E c \in CallArgs : GetDbConnectionStart(c)
    \/ \E t \in BOOLEAN : ConnectSucceeds(t)
    \/ \E e \in ErrorMessages : ConnectLockedRetry(e)
    \/ \E e \in ErrorMessages : ConnectFailsGiveUp(e)
    \/ \E i \in 1..MaxSteps, l \in {"INFO", "TRACE"}, k \in BOOLEAN : LogToDb(i, l, k)

SpecConn == InitConn /\ [][NextConn]_vars

(***************************************************************************)
(* Properties of the connection manager.                                   *)
(***************************************************************************)
Count(ev) == Cardinality({i \in DOMAIN trace : trace[i].ev = ev})

RECURSIVE SumN(_)
SumN(s) == IF s = <<>> THEN 0 ELSE Head(s).n + SumN(Tail(s))

TotalSleep == SumN(SelectSeq(trace, LAMBDA x : x.ev = "sleep"))

AllFailuresLockClassified ==
    \A i \in DOMAIN trace : trace[i].ev = "connect_fail" => IsLockError(trace[i].err)

\* C1: when the open fails with a lock-classified error on the first k
\* attempts (k < max_retries) and then succeeds, the call returns the open
\* handle; failed attempt i (i = 0..k-1) is followed by one diagnostic and
\* then a sleep of 2^i seconds, and nothing else is slept; for k = 2 and
\* max_retries = 3 the total wait is 3 seconds.
C1_RetryThenSuccess ==
    (pc = "idle" /\ Count("connect_ok") = 1) =>
        LET k == Count("connect_fail")
        IN /\ k < call.max_retries
           /\ AllFailuresLockClassified
           /\ ret # NoConn /\ ret = db_connection /\ ret.path = call.path
           /\ \A i \in 0..(k - 1) :
                 /\ trace[3 * i + 1].ev = "connect_fail" /\ trace[3 * i + 1].n = i
                 /\ trace[3 * i + 2] = Ev("print_retry", 2 ^ i)
                 /\ trace[3 * i + 3] = Ev("sleep", 2 ^ i)
           /\ trace[3 * k + 1] = Ev("connect_ok", k)
           /\ Count("sleep") = k /\ Count("print_retry") = k
           /\ ((k = 2 /\ call.max_retries = 3) => TotalSleep = 3)

C1_Witness ==
    /\ pc = "idle" /\ Count("connect_ok") = 1 /\ Count("connect_fail") = 2
    /\ call.max_retries = 3 /\ ret # NoConn /\ TotalSleep = 3

\* C2: when every open attempt of a call fails with a lock-classified
\* error, the call makes max_retries attempts and returns None without
\* raising; and a log_to_db call on a handler that holds no connection
\* returns without raising, without executing an INSERT and without changing
\* a table or the handler.
C2_ExhaustedIsUnavailable ==
    [][/\ (/\ pc' = "idle" /\ steps' > 0 /\ db_connection' = NoConn
           /\ Count("makedirs_raise")' = 0 /\ AllFailuresLockClassified')
          => /\ Count("connect_fail")' = call'.max_retries
             /\ ret' = NoConn
             /\ (lastOp' = "get_db_connection" => ~raised')
       /\ (/\ steps' # steps /\ lastOp' = "log_to_db"
           /\ handlers[lastLog'.handler].connection = NoConn)
          => /\ ~raised'
             /\ lastLog'.skipped /\ ~lastLog'.failed
             /\ store' = store /\ handlers' = handlers]_vars

C2_Witness ==
    /\ lastOp = "log_to_db" /\ lastLog.handler = Len(handlers)
    /\ handlers[lastLog.handler].connection = NoConn /\ lastLog.skipped
    /\ call.caller = "handler" /\ Count("print_exhausted") = 1
    /\ Count("connect_fail") = DefaultMaxRetries /\ AllFailuresLockClassified

\* C3: an open failure that is not lock-classified ends the call at once:
\* it is the last open attempt, nothing is slept after it, None is returned
\* and nothing is raised, whatever the attempt number and max_retries.
C3_OtherFailureStopsAtOnce ==
    \A i \in DOMAIN trace :
        (trace[i].ev = "connect_fail" /\ ~IsLockError(trace[i].err)) =>
            /\ pc = "idle"
            /\ Len(trace) = i + 1 /\ trace[i + 1].ev = "print_error"
            /\ Count("connect_fail") = trace[i].n + 1 /\ Count("connect_ok") = 0
            /\ Count("sleep") = trace[i].n
            /\ ret = NoConn /\ db_connection = NoConn
            /\ (lastOp = "get_db_connection" => ~raised)

C3_Witness ==
    /\ call.max_retries = 3
    /\ \E i \in DOMAIN trace :
          trace[i].ev = "connect_fail" /\ ~IsLockError(trace[i].err) /\ trace[i].n = 1

\* C9: once a call has returned an open handle, every later step leaves the
\* returned handle and the global handle as they are, and a later call
\* makes no open attempt and no table bootstrap.
C9_HandleIsStable ==
    [][(pc = "idle" /\ ret # NoConn) =>
          /\ ret' = ret /\ db_connection' = db_connection
          /\ \/ trace' = trace
             \/ /\ steps' # steps /\ lastOp' = "get_db_connection"
                /\ trace' = <<>>]_vars

C9_Witness ==
    /\ pc = "idle" /\ lastOp = "get_db_connection" /\ steps >= 2 /\ trace = <<>>
    /\ ret # NoConn /\ ret = db_connection /\ ~raised

\* C10: one handle per path: a completed call for path q returns a handle
\* opened on q, and a handler constructed for q holds a handle opened on q.
C10_HandlePerPath ==
    /\ (pc = "idle" /\ lastOp = "get_db_connection" /\ ~raised /\ ret # NoConn)
       => ret.path = call.path
    /\ \A i \in DOMAIN handlers :
          handlers[i].connection # NoConn
             => handlers[i].connection.path = handlers[i].db_path

\* C11: Unavailable is terminal: once a call has made open attempts and
\* ended without a handle, no later operation enters the open loop of
\* get_db_connection again.
C11_UnavailableIsTerminal ==
    [][(/\ pc = "idle" /\ lastOp = "get_db_connection" /\ ~raised
        /\ ret = NoConn /\ db_connection = NoConn /\ Count("connect_fail") > 0)
       => pc' # "loop"]_vars

\* C12: when the open succeeds and creating job_logs fails, the call yields
\* no handle and raises nothing, and a later log_to_db on a handler built by
\* that call executes no INSERT.
C12_BootstrapFailureIsUnavailable ==
    /\ (pc = "idle" /\ Count("bootstrap_fail") > 0)
       => (ret = NoConn /\ db_connection = NoConn /\ ~raised)
    /\ (/\ lastOp = "log_to_db" /\ Count("bootstrap_fail") > 0
        /\ call.caller = "handler" /\ lastLog.handler = Len(handlers))
       => lastLog.skipped

(***************************************************************************)
(* Part II: configuration, pipeline singleton and the TPLogger facade.     *)
(***************************************************************************)
LevelMethods == {"debug", "info", "warning", "error", "critical"}

\* self._log("DEBUG", ...), self._log("INFO", ...), ...
MethodLevel ==
    [m \in LevelMethods |->
        CASE m = "debug" -> "DEBUG" [] m = "info" -> "INFO"
          [] m = "warning" -> "WARNING" [] m = "error" -> "ERROR"
          [] m = "critical" -> "CRITICAL"]

\* the level arguments explored: the five values, a lower-case spelling
\* (loguru has the method, the record model rejects the value) and a value
\* neither knows
LevelInputs == Levels \cup {"info", "FATAL"}

\* level.lower()
Lower ==
    [l \in LevelInputs |->
        CASE l = "DEBUG" -> "debug" [] l = "INFO" -> "info"
          [] l = "WARNING" -> "warning" [] l = "ERROR" -> "error"
          [] l = "CRITICAL" -> "critical" [] l = "info" -> "info"
          [] l = "FATAL" -> "fatal"]

\* the level methods a loguru logger has: getattr(self.loguru_logger, name)
LoguruMethods == {"trace", "debug", "info", "success", "warning", "error", "critical"}

\* write_disposition of the job_logs resource
WriteDisposition == IF variant = "tp_logger" THEN "replace" ELSE "append"

\* The table a run of job_logs(...) writes.  src/dlt_logger/dlt/pipeline.py
\* names the resource config.table_name, read from the configuration of the
\* moment; in src/tp_logger/dlt/pipeline.py it has the name of the function.
ResourceName == IF variant = "dlt_logger" THEN config.table_name ELSE "job_logs"

Target(pl) == <<pl.db_path, pl.dataset_name, ResourceName>>

\* pipeline.run(job_logs([log_entry])) returning normally
RunPipeline(pl, rec) ==
    IF WriteDisposition = "replace"
      THEN [tables EXCEPT ![Target(pl)] = <<rec>>]
      ELSE [tables EXCEPT ![Target(pl)] = Append(@, rec)]

\* Variant: get_pipeline without the "if _pipeline is None" guard.
DoGetPipelineAlwaysNew(createOk) ==
    IF config = NoConfig \/ ~createOk
      THEN [pipeline |-> pipeline, raised |-> TRUE, built |-> 0]
      ELSE [pipeline |-> [id |-> builtTotal + 1, db_path |-> config.db_path,
                          dataset_name |-> config.dataset_name],
            raised |-> FALSE, built |-> 1]

\* get_pipeline(): the new value of _pipeline, whether the call raised, and
\* how many pipelines it constructed.  get_config() raises ValueError while
\* no configuration is set; a failure of dlt.pipeline(...) is printed and
\* re-raised.
DoGetPipeline(createOk) ==
    IF pipeline = NoPipeline
      THEN IF config = NoConfig \/ ~createOk
             THEN [pipeline |-> NoPipeline, raised |-> TRUE, built |-> 0]
             ELSE [pipeline |-> [id |-> builtTotal + 1, db_path |-> config.db_path,
                                 dataset_name |-> config.dataset_name],
                   raised |-> FALSE, built |-> 1]
      ELSE [pipeline |-> pipeline, raised |-> FALSE, built |-> 0]

\* Variant: the failure of pipeline.run is not caught.
LogToDltNoCatch(lg, rec, runOk) ==
    IF runOk
      THEN [tables |-> RunPipeline(lg.pipeline, rec), events |-> <<"run_ok">>,
            raised |-> FALSE, failed |-> FALSE]
      ELSE [tables |-> tables, events |-> <<"run_raise">>,
            raised |-> TRUE, failed |-> TRUE]

\* TPLogger._log_to_dlt: try: self.pipeline.run(job_logs([log_entry]))
\* except Exception as e: print(f"DLT logging failed: {e}")
LogToDlt(lg, rec, runOk) ==
    IF runOk
      THEN [tables |-> RunPipeline(lg.pipeline, rec), events |-> <<"run_ok">>,
            raised |-> FALSE, failed |-> FALSE]
      ELSE [tables |-> tables, events |-> <<"run_raise", "print_diag">>,
            raised |-> FALSE, failed |-> TRUE]

\* the severity of the level methods of a loguru logger and of the levels
\* a sink can be given
LoguruNo ==
    [m \in LoguruMethods |->
        CASE m = "trace" -> 5 [] m = "debug" -> 10 [] m = "info" -> 20
          [] m = "success" -> 25 [] m = "warning" -> 30 [] m = "error" -> 40
          [] m = "critical" -> 50]

LevelNo ==
    [l \in Levels |->
        CASE l = "DEBUG" -> 10 [] l = "INFO" -> 20 [] l = "WARNING" -> 30
          [] l = "ERROR" -> 40 [] l = "CRITICAL" -> 50]

\* if config.console_logging: setup_console_logging(), which does
\* logger.remove(); logger.add(sys.stdout, ..., level=config.log_level)
SinkAfterSetup(cfg) ==
    IF cfg.console_logging THEN [sink EXCEPT !.level = cfg.log_level] ELSE sink

\* a message emitted with the loguru method m reaches the sink when its
\* severity is at least the level of the sink
SinkPrints(m) == LoguruNo[m] >= LevelNo[sink.level]

\* Variant: setup_logging also generates a new RUN_ID.
SetupLoggingNewRunId(cfg) ==
    /\ pc = "idle" /\ steps < MaxSteps
    /\ steps' = steps + 1
    /\ config' = cfg
    /\ pipeline' = NoPipeline
    /\ builtSinceSetup' = 0
    /\ returned' = {}
    /\ raised' = FALSE
    /\ lastOp' = "setup_logging"
    /\ RUN_ID' = RUN_ID + 1
    /\ UNCHANGED <<variant, builtTotal, retPipe, loggers, tables, written, lastCall,
                   failures, console>>
    /\ athCfg' = cfg.athena
    /\ sink' = SinkAfterSetup(cfg)
    /\ UNCHANGED <<connOnly, athFrameNoSink>>

\* setup_logging(kwargs...): config = LoggerConfig(kwargs...); set_config(config);
\* pipeline_module._pipeline = None
SetupLogging(cfg) ==
    /\ pc = "idle" /\ steps < MaxSteps
    /\ steps' = steps + 1
    /\ config' = cfg
    /\ pipeline' = NoPipeline
    /\ builtSinceSetup' = 0
    /\ returned' = {}
    /\ raised' = FALSE
    /\ lastOp' = "setup_logging"
    /\ UNCHANGED <<variant, builtTotal, retPipe, loggers, tables, written, lastCall,
                   failures, RUN_ID, console>>
    /\ athCfg' = cfg.athena
    /\ sink' = SinkAfterSetup(cfg)
    /\ UNCHANGED <<connOnly, athFrameNoSink>>

\* set_config(config): _config = config
SetConfig(cfg) ==
    /\ pc = "idle" /\ steps < MaxSteps
    /\ steps' = steps + 1
    /\ config' = cfg
    /\ raised' = FALSE
    /\ lastOp' = "set_config"
    /\ UNCHANGED <<variant, pipeline, builtTotal, builtSinceSetup, returned, retPipe,
                   loggers, tables, written, lastCall, failures, RUN_ID, console>>
    /\ athCfg' = cfg.athena
    /\ UNCHANGED <<connOnly, athFrame>>

\* get_pipeline()
GetPipeline(createOk) ==
    /\ pc = "idle" /\ steps < MaxSteps
    /\ steps' = steps + 1
    /\ LET r == DoGetPipeline(createOk)
       IN /\ pipeline' = r.pipeline
          /\ raised' = r.raised
          /\ builtTotal' = builtTotal + r.built
          /\ builtSinceSetup' = builtSinceSetup + r.built
          /\ IF r.raised
               THEN UNCHANGED <<retPipe, returned>>
               ELSE /\ retPipe' = r.pipeline
                    /\ returned' = returned \cup {r.pipeline.id}
    /\ lastOp' = "get_pipeline"
    /\ UNCHANGED <<variant, config, loggers, tables, written, lastCall, failures,
                   RUN_ID, console>>
    /\ UNCHANGED <<connOnly, athVars>>

\* get_logger(name) = TPLogger(name): self.config = get_config();
\* self.pipeline = get_pipeline()
GetLogger(createOk) ==
    /\ pc = "idle" /\ steps < MaxSteps
    /\ steps' = steps + 1
    /\ LET r == DoGetPipeline(createOk)
       IN /\ pipeline' = r.pipeline
          /\ raised' = r.raised
          /\ builtTotal' = builtTotal + r.built
          /\ builtSinceSetup' = builtSinceSetup + r.built
          /\ IF r.raised
               THEN UNCHANGED <<retPipe, returned, loggers>>
               ELSE /\ retPipe' = r.pipeline
                    /\ returned' = returned \cup {r.pipeline.id}
                    /\ loggers' = Append(loggers, [config |-> config,
                                                   pipeline |-> r.pipeline])
    /\ lastOp' = "get_logger"
    /\ UNCHANGED <<variant, config, tables, written, lastCall, failures, RUN_ID,
                   console>>
    /\ UNCHANGED <<connOnly, athVars>>

\* The fields of the LogEntry model.  src/tp_logger/models.py declares
\* context; src/dlt_logger/logging/models.py does not, and a pydantic model
\* ignores a keyword it does not declare.  ("logger" stands for module_name.)
LogEntryFields ==
    IF variant = "dlt_logger"
      THEN {"id", "project_name", "logger", "run_id", "level", "action", "success"}
      ELSE {"id", "project_name", "logger", "run_id", "level", "action", "success",
            "context"}

\* Exception types passed to log_exception; type(exception).__name__
ExceptionTypes == {"ValueError", "KeyError"}

\* Action names passed to log_action and log_exception
ActionNames == {"a1", "a2"}

\* A context argument: None, or a dict given as its set of items
NoneContext == [isNone |-> TRUE, items |-> {}]

DictContext(items) == [isNone |-> FALSE, items |-> items]

\* context or {}
ContextOrEmpty(context) == IF context.isNone THEN {} ELSE context.items

\* Variant: the record takes project_name from the global configuration.
CreateLogEntryGlobalConfig(i, kw) ==
    LET given == [id |-> steps + 1, project_name |-> config.project_name,
                  logger |-> i, run_id |-> RUN_ID,
                  level |-> kw.level, action |-> kw.action, success |-> kw.success,
                  context |-> ContextOrEmpty(kw.context)]
    IN [f \in LogEntryFields |-> given[f]]

\* TPLogger._create_log_entry(level, message, action, ..., success, ...,
\* context) of logger number i: LogEntry(..., run_id=RUN_ID, level=level,
\* action=action, success=success, context=context or {}).  The record is
\* identified by the number of the call that made it.
CreateLogEntry(i, kw) ==
    LET given == [id |-> steps + 1, project_name |-> loggers[i].config.project_name,
                  logger |-> i, run_id |-> RUN_ID,
                  level |-> kw.level, action |-> kw.action, success |-> kw.success,
                  context |-> ContextOrEmpty(kw.context)]
    IN [f \in LogEntryFields |-> given[f]]

\* Variant: pipeline.run before the console emission.
LogStepsStorageFirst(consoleOn, consoleRaises, entryRaises, storage) ==
    IF consoleRaises THEN <<"console_raise">>
    ELSE IF entryRaises THEN (IF consoleOn THEN <<"console">> ELSE <<>>) \o <<"entry_raise">>
    ELSE storage \o (IF consoleOn THEN <<"console">> ELSE <<>>)

\* The order of the steps of TPLogger._log: the console emission, then
\* _create_log_entry, then _log_to_dlt; an exception ends the call.
LogSteps(consoleOn, consoleRaises, entryRaises, storage) ==
    IF consoleRaises THEN <<"console_raise">>
    ELSE IF entryRaises THEN (IF consoleOn THEN <<"console">> ELSE <<>>) \o <<"entry_raise">>
    ELSE (IF consoleOn THEN <<"console">> ELSE <<>>) \o storage

\* Variant: a record below the level of the console sink is not stored.
ForwardedAboveThreshold(consoleRaises, entryRaises, level) ==
    /\ ~consoleRaises /\ ~entryRaises
    /\ level \in Levels => LevelNo[level] >= LevelNo[sink.level]

\* _log hands the record to _log_to_dlt whenever the two statements before
\* it have not raised; no level is compared
Forwarded(consoleRaises, entryRaises, level) == ~consoleRaises /\ ~entryRaises

\* TPLogger._log(level, message, **kwargs) on logger number i:
\*   if self.config.console_logging: getattr(self.loguru_logger, level.lower())(message)
\*   log_entry = self._create_log_entry(level=level, message=message, **kwargs)
\*   self._log_to_dlt(log_entry)
\* args: what the caller passed to the public method; kw: the keywords _log
\* receives; extra: the call carries a keyword _create_log_entry does not
\* declare.
Facade(op, i, args, kw, extra, runOk) ==
    /\ pc = "idle" /\ steps < MaxSteps
    /\ i \in 1..Len(loggers)
    /\ LET lg == loggers[i]
           level == kw.level
           consoleOn == lg.config.console_logging
           consoleRaises == consoleOn /\ Lower[level] \notin LoguruMethods
           entryRaises == extra \/ level \notin Levels
           rec == CreateLogEntry(i, kw)
           out == LogToDlt(lg, rec, runOk)
           stored == Forwarded(consoleRaises, entryRaises, level)
       IN /\ raised' = (consoleRaises \/ entryRaises \/ out.raised)
          /\ console' = IF consoleOn /\ ~consoleRaises
                          THEN Append(console, [id |-> steps + 1, logger |-> i])
                          ELSE console
          /\ sink' = IF consoleOn /\ ~consoleRaises /\ SinkPrints(Lower[level])
                       THEN [sink EXCEPT !.shown = Append(@, steps + 1)]
                       ELSE sink
          /\ tables' = IF stored THEN out.tables ELSE tables
          /\ written' = IF stored /\ ~out.failed
                          THEN [written EXCEPT ![Target(lg.pipeline)] = Append(@, rec)]
                          ELSE written
          /\ failures' = IF stored /\ out.failed THEN failures \cup {i} ELSE failures
          /\ lastCall' = [logger |-> i,
                          events |-> LogSteps(consoleOn, consoleRaises, entryRaises,
                                              out.events),
                          valid |-> ~extra /\ level \in Levels,
                          args |-> args,
                          rec |-> IF stored THEN rec ELSE NoRec]
    /\ steps' = steps + 1
    /\ lastOp' = op
    /\ UNCHANGED <<variant, config, pipeline, builtTotal, builtSinceSetup, returned,
                   retPipe, loggers, RUN_ID>>
    /\ UNCHANGED <<connOnly, athNoSink>>

\* debug / info / warning / error / critical (message, **kwargs)
LevelMethod(i, m, extra, runOk) ==
    Facade(m, i, NoArgs,
           [level |-> MethodLevel[m], success |-> "none", action |-> "none",
            context |-> NoneContext],
           extra, runOk)

\* Variant: the level defaults to INFO whatever the success flag.
LogActionDefaultInfo(i, action, level, success, extra, runOk) ==
    Facade("log_action", i,
           [level |-> level, success |-> IF success THEN "true" ELSE "false",
            action |-> action, exc |-> "none"],
           [level |-> IF level = "none" THEN "INFO" ELSE level,
            success |-> IF success THEN "true" ELSE "false", action |-> action,
            context |-> NoneContext],
           extra, runOk)

\* log_action(action, message, success, level=None, ..., **kwargs):
\* if level is None: level = "INFO" if success else "ERROR"
LogAction(i, action, level, success, extra, runOk) ==
    Facade("log_action", i,
           [level |-> level, success |-> IF success THEN "true" ELSE "false",
            action |-> action, exc |-> "none"],
           [level |-> IF level = "none" THEN (IF success THEN "INFO" ELSE "ERROR")
                      ELSE level,
            success |-> IF success THEN "true" ELSE "false", action |-> action,
            context |-> NoneContext],
           extra, runOk)

\* log_exception(action, exception): level="ERROR", success=False,
\* context={"exception_type": type(exception).__name__}
LogException(i, action, exc, runOk) ==
    Facade("log_exception", i,
           [level |-> "none", success |-> "none", action |-> action, exc |-> exc],
           [level |-> "ERROR", success |-> "false", action |-> action,
            context |-> DictContext({<<"exception_type", exc>>})],
           FALSE, runOk)

LogOps == LevelMethods \cup {"log_action", "log_exception"}

InitPipe == ConnStart({"logger"}) /\ PipeStart(Variants) /\ AthOff

NextPipe ==
    \/ \E cfg \in Configs : SetupLogging(cfg)
    \/ \E cfg \in Configs : SetConfig(cfg)
    \/ \E k \in BOOLEAN : GetPipeline(k)
    \/ \E k \in BOOLEAN : GetLogger(k)
    \/ \E i \in 1..MaxSteps, m \in LevelMethods, x \in BOOLEAN, k \in BOOLEAN :
          LevelMethod(i, m, x, k)
    \/ \E i \in 1..MaxSteps, a \in {"a1"},
          l \in {"none", "WARNING", "info", "FATAL"},
          sc \in BOOLEAN, x \in BOOLEAN, k \in BOOLEAN : LogAction(i, a, l, sc, x, k)
    \/ \E i \in 1..MaxSteps, a \in ActionNames, e \in ExceptionTypes, k \in BOOLEAN :
          LogException(i, a, e, k)

SpecPipe == InitPipe /\ [][NextPipe]_vars

(***************************************************************************)
(* Properties of the pipeline singleton and the facade.                    *)
(***************************************************************************)
Events(e) == {k \in DOMAIN lastCall.events : lastCall.events[k] = e}

RowIds(f) == UNION {{f[t][k].id : k \in DOMAIN f[t]} : t \in Targets}

\* C4: no call to get_logger, debug, info, warning, error, critical,
\* log_action or log_exception lets an exception reach the caller, whatever
\* the arguments and the state of the store.
C4_LoggingNeverRaises ==
    lastOp \in (LogOps \cup {"get_logger"}) => ~raised

\* C5: when pipeline.run raises during a log call, the call returns
\* normally, one diagnostic is printed after the single failed run, no table
\* changes, the logger is left as it was and the record is in no table; rows
\* only ever come from runs that returned normally; and a later valid log
\* call on a logger that has had a failed write still runs the pipeline.
C5_FailedWriteIsDropped ==
    [][/\ (steps' # steps /\ lastOp' \in LogOps /\ Events("run_raise")' # {}) =>
             /\ ~raised'
             /\ Cardinality(Events("run_raise")') = 1
             /\ lastCall'.events[Len(lastCall'.events)] = "print_diag"
             /\ lastCall'.events[Len(lastCall'.events) - 1] = "run_raise"
             /\ tables' = tables
             /\ loggers' = loggers
             /\ steps' \notin RowIds(tables')
       /\ RowIds(tables') \subseteq RowIds(written')
       /\ (/\ steps' # steps /\ lastOp' \in LogOps /\ lastCall'.valid
           /\ lastCall'.logger \in failures)
          => (Events("run_ok")' # {} \/ Events("run_raise")' # {})]_vars

C5_Witness ==
    /\ lastOp \in LogOps /\ lastCall.valid /\ ~raised
    /\ lastCall.logger \in failures
    /\ Events("run_ok") # {}
    /\ steps \in RowIds(tables)

\* C6: when no write has failed, the logical table of every target holds
\* exactly the records of the log calls written to it, in call order.
C6_TableHoldsAllRecordsInOrder ==
    failures = {} => \A t \in Targets : tables[t] = written[t]

\* C7: between two setup_logging calls every get_pipeline call that returns
\* returns the one current instance, and at most one pipeline is constructed.
C7_PipelineSingleton ==
    /\ Cardinality(returned) <= 1
    /\ builtSinceSetup <= 1
    /\ (returned # {} => returned = {pipeline.id})
    /\ ((lastOp \in {"get_pipeline", "get_logger"} /\ ~raised)
          => (retPipe = pipeline /\ retPipe # NoPipeline))

C7_Witness ==
    /\ lastOp = "get_logger" /\ ~raised /\ Len(loggers) >= 2
    /\ loggers[Len(loggers)].pipeline = loggers[Len(loggers) - 1].pipeline
    /\ returned = {pipeline.id} /\ builtSinceSetup = 1

\* C8: the pipeline get_pipeline returns is bound to the db_path and the
\* dataset_name of the current configuration.
C8_PipelineBoundToConfig ==
    (lastOp \in {"get_pipeline", "get_logger"} /\ ~raised) =>
        /\ retPipe.db_path = config.db_path
        /\ retPipe.dataset_name = config.dataset_name

AllRecords == UNION {{written[t][k] : k \in DOMAIN written[t]} : t \in Targets}

\* C13: RUN_ID never changes, and every record built (the record of the
\* last call, every record written to a table) carries it, also after a
\* setup_logging has reset the pipeline.
C13_OneRunId ==
    [][/\ RUN_ID' = RUN_ID
       /\ \A r \in AllRecords' : r.run_id = RUN_ID
       /\ (lastCall'.rec # NoRec => lastCall'.rec.run_id = RUN_ID)]_vars

C13_Witness ==
    /\ lastOp \in LogOps /\ lastCall.rec # NoRec /\ lastCall.rec.run_id = RUN_ID
    /\ pipeline = NoPipeline /\ builtTotal >= 1
    /\ \E r \in AllRecords : r = lastCall.rec

IsIncreasing(ids) == \A a, b \in DOMAIN ids : a < b => ids[a].id < ids[b].id

\* C14: in every log call the console emission comes before the storage
\* write of the same record, and the emissions of a call come after every
\* emission of the calls made before it: the console sink and every table's
\* write history are in call order and end with the record of the last call.
C14_ConsoleThenStorageInCallOrder ==
    /\ \A a, b \in DOMAIN lastCall.events :
          (lastCall.events[a] = "console"
             /\ lastCall.events[b] \in {"run_ok", "run_raise"}) => a < b
    /\ IsIncreasing(console)
    /\ \A t \in Targets : IsIncreasing(written[t])
    /\ \A k \in DOMAIN console : console[k].id <= steps
    /\ \A r \in AllRecords : r.id <= steps
    /\ lastOp \in LogOps =>
          /\ Events("console") # {} =>
                console[Len(console)] = [id |-> steps, logger |-> lastCall.logger]
          /\ Events("run_ok") # {} =>
                \E t \in Targets : /\ written[t] # <<>>
                                   /\ written[t][Len(written[t])].id = steps

C14_Witness ==
    /\ lastOp \in LogOps /\ lastCall.events = <<"console", "run_ok">>
    /\ Len(console) >= 2
    /\ console[Len(console) - 1].logger = lastCall.logger
    /\ \E t \in Targets : Len(written[t]) >= 2

\* C15: a log_action call without a level builds a record with level INFO
\* when success is true and ERROR when it is false; with an explicit valid
\* level the record has that level, whatever the success flag.
C15_LogActionLevel ==
    (lastOp = "log_action" /\ lastCall.rec # NoRec) =>
        /\ lastCall.rec.success = lastCall.args.success
        /\ lastCall.rec.level =
              IF lastCall.args.level = "none"
                THEN (IF lastCall.args.success = "true" THEN "INFO" ELSE "ERROR")
                ELSE lastCall.args.level

C15_Witness ==
    /\ lastOp = "log_action" /\ lastCall.rec # NoRec
    /\ lastCall.args.level = "none" /\ lastCall.args.success = "false"
    /\ lastCall.rec.level = "ERROR"
    /\ \E r \in AllRecords : r = lastCall.rec

\* C16: the record log_exception(action, err) sends to storage has level
\* ERROR, success false, the given action, and a context that carries the
\* type name of err.
C16_ExceptionRecord ==
    (lastOp = "log_exception" /\ lastCall.rec # NoRec) =>
        /\ lastCall.rec.level = "ERROR"
        /\ lastCall.rec.success = "false"
        /\ lastCall.rec.action = lastCall.args.action
        /\ "context" \in DOMAIN lastCall.rec
        /\ <<"exception_type", lastCall.args.exc>> \in lastCall.rec.context

(***************************************************************************)
(* Part III: the transfer to Athena.                                       *)
(***************************************************************************)
AEv(e) == [ev |-> e, table |-> "-"]

ATab(e, t) == [ev |-> e, table |-> t]

\* A log call of the transfer's TPLogger: pipeline.run(job_logs([entry])),
\* a write against the embedded store.  Only the dlt_logger transfer logs
\* through a logger; the others print.
AthLog == IF athImpl = "dlt_logger" THEN <<AEv("store_write")>> ELSE <<>>

\* The store file after the transfer's log calls: a pipeline.run that
\* succeeds creates the duckdb file.
FileAfterLog(w) == athFile \/ (athImpl = "dlt_logger" /\ w)

\* Variant: the log call's pipeline replaces the table
\* (write_disposition="replace").
RowsAfterLogReplace(levels, w) ==
    IF athImpl = "dlt_logger" /\ w
      THEN [k \in 1..Len(levels) |-> Row(Len(resRows) + k, levels[k])]
      ELSE resRows

\* job_logs after the transfer's log calls with the given levels: each
\* pipeline.run that succeeds appends the entry to the table the transfer
\* reads (get_pipeline and the transfer use the same config.db_path and
\* config.dataset_name).
RowsAfterLog(levels, w) ==
    IF athImpl = "dlt_logger" /\ w
      THEN resRows \o [k \in 1..Len(levels) |-> Row(Len(resRows) + k, levels[k])]
      ELSE resRows

\* all([config.aws_region, config.athena_database, config.athena_s3_staging_bucket])
AllCoordinates(cfg) ==
    cfg.aws_region /\ cfg.athena_database /\ cfg.athena_s3_staging_bucket

\* How a failed precondition ends the call: upload_to_athena raises
\* ValueError, transfer_to_athena returns False.
CheckFailure == IF athImpl = "upload" THEN "ValueError" ELSE "false"

\* Variant: the loop skips no table.
IsDltTableNever(t) == FALSE

\* table_name.startswith("_dlt")
IsDltTable(t) == t = "_dlt_loads"

\* Entry of the transfer: config = get_config(); logger = _get_logger();
\* try: logger.log_action(action="athena_transfer_start", ...).
\* _get_logger is outside the try block: an exception of TPLogger(...)
\* leaves the transfer.
TransferEnter(loggerOk, w) ==
    /\ pc = "idle" /\ athPc = "idle" /\ steps < MaxSteps
    /\ steps' = steps + 1
    /\ lastOp' = "transfer"
    /\ athTodo' = <<>>
    /\ athFileAtCall' = athFile
    /\ IF athImpl = "dlt_logger" /\ ~loggerOk
         THEN /\ athTrace' = <<AEv("get_config"), AEv("get_logger_raise")>>
              /\ athResult' = "error"
              /\ raised' = TRUE
              /\ UNCHANGED <<athPc, athFile, resRows>>
         ELSE /\ athTrace' = <<AEv("get_config")>>
                              \o (IF athImpl = "dlt_logger" THEN <<AEv("get_logger")>>
                                                            ELSE <<>>)
                              \o AthLog
              /\ athResult' = "none"
              /\ raised' = FALSE
              /\ athFile' = FileAfterLog(w)
              /\ resRows' = RowsAfterLog(<<"INFO">>, w)
              /\ athPc' = "checks"
    /\ UNCHANGED <<athImpl, athCfg, srcTables, athDest, resOnly>>
    /\ UNCHANGED <<connOnly, pipeVars, extVars>>

\* transfer_to_athena() called by the application
TransferStart(loggerOk, w) ==
    /\ TransferEnter(loggerOk, w)
    /\ wfStep4' = IF wfStep4 = "absent" THEN "absent" ELSE "none"
    /\ UNCHANGED <<wfConfig, dbInfo>>

\* The precondition checks, in order: athena_destination, the three
\* coordinates, and (transfer_to_athena only) os.path.exists(config.db_path).
\* The first failing check ends the call.
TransferChecks(w) ==
    /\ athPc = "checks"
    /\ LET c1 == athCfg.athena_destination
           c2 == AllCoordinates(athCfg)
           hasFileCheck == athImpl # "upload"
           c3 == ~hasFileCheck \/ athFile
           evs == <<AEv("check_destination")>>
                  \o (IF c1 THEN <<AEv("check_coordinates")>> ELSE <<>>)
                  \o (IF c1 /\ c2 /\ hasFileCheck THEN <<AEv("check_file")>> ELSE <<>>)
           pass == c1 /\ c2 /\ c3
       IN /\ athTrace' = athTrace \o evs \o AthLog
          /\ athPc' = IF pass THEN "create" ELSE "idle"
          /\ athResult' = IF pass THEN athResult ELSE CheckFailure
          /\ raised' = (~pass /\ athImpl = "upload")
          /\ resRows' = RowsAfterLog(<<IF pass THEN "INFO" ELSE "ERROR">>, w)
    /\ athFile' = FileAfterLog(w)
    /\ UNCHANGED <<athImpl, athCfg, athFileAtCall, srcTables, athTodo, athDest, steps,
                   lastOp, resOnly>>
    /\ UNCHANGED <<connOnly, pipeVars, wfVars, extVars>>

\* Construction of the pipelines.  transfer_to_athena: dlt.pipeline(...,
\* destination=athena).  upload_to_athena: the source pipeline, the Athena
\* destination pipeline, duckdb_pipeline.dataset().  failAt: the construction
\* that raises (0: none); the exception is caught and False is returned.
TransferCreate(failAt, w) ==
    /\ athPc = "create"
    /\ failAt \in (IF athImpl = "upload" THEN 0..3 ELSE 0..1)
    /\ LET all == IF athImpl = "upload"
                    THEN <<AEv("create_source"), AEv("create_destination"),
                           AEv("open_source")>>
                    ELSE <<AEv("create_destination")>>
           done == IF failAt = 0 THEN all ELSE SubSeq(all, 1, failAt)
           todo == IF athImpl = "upload" THEN srcTables ELSE <<"job_logs">>
       IN IF failAt # 0
            THEN /\ athTrace' = athTrace \o done \o <<AEv("raise")>> \o AthLog
                 /\ athResult' = "false"
                 /\ athPc' = "idle"
                 /\ resRows' = RowsAfterLog(<<"ERROR">>, w)
                 /\ UNCHANGED athTodo
            ELSE /\ athTrace' = athTrace \o done \o AthLog \o AthLog
                 /\ resRows' = RowsAfterLog(<<"INFO", "INFO">>, w)
                 /\ athTodo' = todo
                 /\ IF todo = <<>>
                      THEN athResult' = "true" /\ athPc' = "idle"
                      ELSE athPc' = "run" /\ UNCHANGED athResult
    /\ athFile' = FileAfterLog(w)
    /\ UNCHANGED <<athImpl, athCfg, athFileAtCall, srcTables, athDest, raised, steps,
                   lastOp, resOnly>>
    /\ UNCHANGED <<connOnly, pipeVars, wfVars, extVars>>

\* Variant: a failing upload is skipped and the loop goes on.
TransferRunContinue(ok, w) ==
    /\ athPc = "run" /\ athTodo # <<>>
    /\ LET t == Head(athTodo)
           rest == Tail(athTodo)
           last == rest = <<>>
       IN /\ athTrace' = athTrace \o <<ATab(IF IsDltTable(t) THEN "skip"
                                           ELSE IF ok THEN "upload_ok"
                                           ELSE "upload_fail", t)>>
          /\ athDest' = IF ~IsDltTable(t) /\ ok THEN Append(athDest, t) ELSE athDest
          /\ athTodo' = rest
          /\ athPc' = IF last THEN "idle" ELSE "run"
          /\ athResult' = IF last THEN "true" ELSE athResult
          /\ resRows' = RowsAfterLog(IF last THEN <<"INFO">> ELSE <<>>, w)
    /\ athFile' = FileAfterLog(w)
    /\ UNCHANGED <<athImpl, athCfg, athFileAtCall, srcTables, raised, steps, lastOp,
                   resOnly>>
    /\ UNCHANGED <<connOnly, pipeVars, wfVars, extVars>>

\* One pass of the upload: transfer_to_athena runs the job_logs resource
\* once (it opens the source store read-only and writes to the destination);
\* upload_to_athena takes the next table of the schema, skips it when it is
\* internal to dlt and runs the destination pipeline on it otherwise.  A run
\* that raises ends the call with False; the end of the tables ends it with
\* True.
TransferRun(ok, w) ==
    /\ athPc = "run" /\ athTodo # <<>>
    /\ LET t == Head(athTodo)
           rest == Tail(athTodo)
           skip == athImpl = "upload" /\ IsDltTable(t)
           open == IF athImpl = "upload" THEN <<>> ELSE <<AEv("open_source")>>
           stop == ~skip /\ ~ok
           last == rest = <<>>
       IN /\ athTrace' = athTrace
                         \o (IF skip THEN <<ATab("skip", t)>>
                             ELSE open \o <<ATab(IF ok THEN "upload_ok"
                                                       ELSE "upload_fail", t)>>)
                         \o (IF stop \/ last THEN AthLog ELSE <<>>)
          /\ athDest' = IF ~skip /\ ok THEN Append(athDest, t) ELSE athDest
          /\ athTodo' = IF stop THEN athTodo ELSE rest
          /\ athPc' = IF stop \/ last THEN "idle" ELSE "run"
          /\ athResult' = IF stop THEN "false" ELSE IF last THEN "true" ELSE athResult
          /\ resRows' = RowsAfterLog(IF stop THEN <<"ERROR">>
                                     ELSE IF last THEN <<"INFO">> ELSE <<>>, w)
    /\ athFile' = FileAfterLog(w)
    /\ UNCHANGED <<athImpl, athCfg, athFileAtCall, srcTables, raised, steps, lastOp,
                   resOnly>>
    /\ UNCHANGED <<connOnly, pipeVars, wfVars, extVars>>

InitAth ==
    /\ ConnStart({"logger"}) /\ PipeStart({"dlt_logger"})
    /\ AthStart(AthImpls, AthConfigs, BOOLEAN, SourceTables)
    /\ ResStart({<<>>})

NextAth ==
    \/ \E k \in BOOLEAN, w \in BOOLEAN : TransferStart(k, w)
    \/ \E w \in BOOLEAN : TransferChecks(w)
    \/ \E f \in 0..3, w \in BOOLEAN : TransferCreate(f, w)
    \/ \E k \in BOOLEAN, w \in BOOLEAN : TransferRun(k, w)

SpecAth == InitAth /\ [][NextAth]_vars

(***************************************************************************)
(* Part IV: job_logs_resource, the resource transfer_to_athena runs.       *)
(***************************************************************************)
Min(a, b) == IF a < b THEN a ELSE b

\* the stores explored: up to MaxRows rows, at most one of them with a
\* level the record model rejects
StoreRows ==
    { [k \in 1..n |-> Row(k, IF k = bad THEN "TRACE" ELSE "INFO")] :
         n \in 0..MaxRows, bad \in 0..MaxRows }

\* Variant: fetchmany returns one row more than asked for.
FetchManyOneMore(rows, pos, size) == SubSeq(rows, pos + 1, Min(pos + size + 1, Len(rows)))

\* cursor.fetchmany(batch_size): the next rows of the result, at most
\* batch_size of them, none when the result is exhausted
FetchMany(rows, pos, size) == SubSeq(rows, pos + 1, Min(pos + size, Len(rows)))

\* batch_data = [dict(zip(columns, row)) for row in batch_rows]: every row
\* of the batch becomes a dictionary, none is dropped or checked
BatchData(batch_rows) == batch_rows

\* write_disposition of the resource under the configuration cfg: an
\* argument of the @dlt.resource decorator, fixed when the module is
\* imported; LoggerConfig has no attribute for it.
ResourceDisposition(cfg) == IF athImpl = "dlt_logger" THEN "merge" ELSE "append"

\* What a load of the given rows leaves at the destination: append adds
\* them; merge with merge_key="_dlt_id" deletes the destination rows that
\* have the _dlt_id of an incoming row and inserts the incoming rows.
Load(disposition, dest, rows) ==
    IF disposition = "append"
      THEN dest \o rows
      ELSE SelectSeq(dest, LAMBDA d : \A k \in DOMAIN rows : rows[k].dlt_id # d.dlt_id)
           \o rows

RECURSIVE Flatten(_)
Flatten(bs) == IF bs = <<>> THEN <<>> ELSE Head(bs) \o Flatten(Tail(bs))

\* transfer_pipeline.run(job_logs_resource(db_path, dataset_name, batch_size))
\* starts the generator: duckdb.connect(db_path, read_only=True) and
\* conn.execute(query).
ResourceOpen(size) ==
    /\ pc = "idle" /\ athPc = "idle" /\ resPc = "idle" /\ steps < MaxSteps
    /\ size \in 1..MaxBatch
    /\ steps' = steps + 1
    /\ lastOp' = "resource"
    /\ raised' = FALSE
    /\ resB' = size
    /\ resPos' = 0
    /\ resBatches' = <<>>
    /\ resPc' = "reading"
    /\ UNCHANGED <<resRows, resDest, resLoads>>
    /\ UNCHANGED <<athImpl, athCfg, athFile, athFileAtCall, srcTables, athPc, athTrace,
                   athResult, athTodo, athDest>>
    /\ UNCHANGED <<connOnly, pipeVars, wfVars, extVars>>

\* One turn of the while loop: fetchmany, break on an empty result,
\* otherwise yield the batch.
ResourceFetch ==
    /\ resPc = "reading"
    /\ LET batch_rows == FetchMany(resRows, resPos, resB)
       IN IF batch_rows = <<>>
            THEN /\ resPc' = "loading"
                 /\ UNCHANGED <<resPos, resBatches>>
            ELSE /\ resBatches' = Append(resBatches, BatchData(batch_rows))
                 /\ resPos' = resPos + Len(batch_rows)
                 /\ UNCHANGED resPc
    /\ UNCHANGED <<resRows, resB, resDest, resLoads, raised, steps, lastOp>>
    /\ UNCHANGED <<athImpl, athCfg, athFile, athFileAtCall, srcTables, athPc, athTrace,
                   athResult, athTodo, athDest>>
    /\ UNCHANGED <<connOnly, pipeVars, wfVars, extVars>>

\* The pipeline loads what the resource yielded, with the resource's write
\* disposition; a destination that refuses the load leaves its table as it
\* was.
ResourceLoad(ok) ==
    /\ resPc = "loading"
    /\ resPc' = "idle"
    /\ IF ok THEN /\ resDest' = Load(ResourceDisposition(athCfg), resDest, Flatten(resBatches))
                  /\ resLoads' = resLoads + 1
             ELSE UNCHANGED <<resDest, resLoads>>
    /\ UNCHANGED <<resRows, resB, resPos, resBatches, raised, steps, lastOp>>
    /\ UNCHANGED <<athImpl, athCfg, athFile, athFileAtCall, srcTables, athPc, athTrace,
                   athResult, athTodo, athDest>>
    /\ UNCHANGED <<connOnly, pipeVars, wfVars, extVars>>

InitRes ==
    /\ ConnStart({"logger"}) /\ PipeStart({"dlt_logger"})
    /\ AthStart({"dlt_logger", "tp_logger_dlt"},
                {[athena_destination |-> TRUE, aws_region |-> TRUE,
                  athena_database |-> TRUE, athena_s3_staging_bucket |-> TRUE]},
                {TRUE}, {<<"job_logs">>})
    /\ ResStart(StoreRows)

NextRes ==
    \/ \E size \in 1..MaxBatch : ResourceOpen(size)
    \/ ResourceFetch
    \/ \E ok \in BOOLEAN : ResourceLoad(ok)

SpecRes == InitRes /\ [][NextRes]_vars

(***************************************************************************)
(* Part V: the workflow of src/dlt_logger/orchestrator/workflow.py, with   *)
(*         the log calls of Part II and the transfer of Part III.          *)
(***************************************************************************)
AllAthena == [athena_destination |-> TRUE, aws_region |-> TRUE,
              athena_database |-> TRUE, athena_s3_staging_bucket |-> TRUE]

\* the configurations of the workflow: remote destination off, and on
FlowConfigs ==
    { [db_path |-> "p", dataset_name |-> "d1", console_logging |-> FALSE,
       athena |-> NoAthena, table_name |-> "job_logs", log_level |-> "INFO",
        project_name |-> "app"],
      [db_path |-> "p", dataset_name |-> "d1", console_logging |-> FALSE,
       athena |-> AllAthena, table_name |-> "job_logs", log_level |-> "INFO",
        project_name |-> "app"] }

\* no call is in progress
FlowIdle == pc = "idle" /\ athPc = "idle" /\ resPc = "idle" /\ wfStep4 # "calling"

\* WorkflowManager(config): if config: set_config(config);
\* self.config = get_config(); self.logger = get_logger("workflow").
\* get_config raises while no configuration is set, get_logger when the
\* pipeline cannot be built.
WorkflowInit(given, c, createOk) ==
    /\ FlowIdle /\ steps < MaxSteps
    /\ steps' = steps + 1
    /\ lastOp' = "workflow_init"
    /\ config' = IF given THEN c ELSE config
    /\ athCfg' = config'.athena
    /\ LET r == IF config' = NoConfig \/ (pipeline = NoPipeline /\ ~createOk)
                  THEN [pipeline |-> pipeline, raised |-> TRUE, built |-> 0]
                ELSE IF pipeline = NoPipeline
                  THEN [pipeline |-> [id |-> builtTotal + 1, db_path |-> config'.db_path,
                                      dataset_name |-> config'.dataset_name],
                        raised |-> FALSE, built |-> 1]
                ELSE [pipeline |-> pipeline, raised |-> FALSE, built |-> 0]
       IN /\ pipeline' = r.pipeline
          /\ raised' = r.raised
          /\ builtTotal' = builtTotal + r.built
          /\ builtSinceSetup' = builtSinceSetup + r.built
          /\ IF r.raised
               THEN UNCHANGED <<retPipe, returned, loggers, wfVars>>
               ELSE /\ retPipe' = r.pipeline
                    /\ returned' = returned \cup {r.pipeline.id}
                    /\ loggers' = Append(loggers, [config |-> config',
                                                   pipeline |-> r.pipeline])
                    /\ wfConfig' = config'.athena
                    /\ wfStep4' = "none"
                    /\ UNCHANGED dbInfo
    /\ UNCHANGED <<variant, tables, written, lastCall, failures, RUN_ID, console>>
    /\ UNCHANGED <<athImpl, athFile, athFileAtCall, srcTables, athPc, athTrace, athResult,
                   athTodo, athDest, resVars>>
    /\ UNCHANGED <<connOnly, extVars>>

\* Variant: step 4 calls the transfer whatever athena_destination is.
Step4BeginAlways(raises, w) ==
    /\ FlowIdle /\ steps < MaxSteps /\ wfStep4 # "absent"
    /\ steps' = steps + 1
    /\ lastOp' = "step_4"
    /\ raised' = FALSE
    /\ athFile' = FileAfterLog(w)
    /\ wfStep4' = "calling"
    /\ resRows' = RowsAfterLog([k \in 1..10 |-> "INFO"], w)
    /\ UNCHANGED <<athImpl, athCfg, athFileAtCall, srcTables, athPc, athTrace, athResult,
                   athTodo, athDest, resOnly, wfConfig, dbInfo>>
    /\ UNCHANGED <<connOnly, pipeVars, extVars>>

\* step_4_transfer_to_athena up to the call of transfer_to_athena: the
\* step is skipped (and succeeds) when self.config.athena_destination is
\* false, fails when the store file is missing, and fails when one of its
\* statements raises; every self.logger call is a write to the store.
Step4Begin(raises, w) ==
    /\ FlowIdle /\ steps < MaxSteps /\ wfStep4 # "absent"
    /\ steps' = steps + 1
    /\ lastOp' = "step_4"
    /\ raised' = FALSE
    /\ athFile' = FileAfterLog(w)
    /\ IF raises
         THEN /\ wfStep4' = "error"
              /\ resRows' = RowsAfterLog(<<"ERROR", "ERROR">>, w)
         ELSE IF ~wfConfig.athena_destination
           THEN /\ wfStep4' = "skipped"
                /\ resRows' = RowsAfterLog(<<"INFO", "INFO">>, w)
         ELSE IF ~FileAfterLog(w)
           THEN /\ wfStep4' = "missing"
                /\ resRows' = RowsAfterLog([k \in 1..8 |-> "INFO"] \o <<"ERROR">>, w)
         ELSE /\ wfStep4' = "calling"
              /\ resRows' = RowsAfterLog([k \in 1..10 |-> "INFO"], w)
    /\ UNCHANGED <<athImpl, athCfg, athFileAtCall, srcTables, athPc, athTrace, athResult,
                   athTodo, athDest, resOnly, wfConfig, dbInfo>>
    /\ UNCHANGED <<connOnly, pipeVars, extVars>>

\* success = transfer_to_athena() of step 4
Step4Call(loggerOk, w) ==
    /\ wfStep4 = "calling"
    /\ TransferEnter(loggerOk, w)
    /\ wfStep4' = "called"
    /\ UNCHANGED <<wfConfig, dbInfo>>

\* What step 4 returns: True when it was skipped, False when it gave up,
\* and after a call the result of the transfer (an exception of the
\* transfer is caught and answered with False).
Step4Return ==
    CASE wfStep4 = "skipped" -> "true"
      [] wfStep4 \in {"missing", "error"} -> "false"
      [] wfStep4 = "called" ->
            IF athPc # "idle" THEN "pending"
            ELSE IF athResult = "true" THEN "true" ELSE "false"
      [] OTHER -> "none"

InitFlow ==
    /\ ConnStart({"logger"}) /\ PipeStart({"dlt_logger"})
    /\ AthStart({"dlt_logger"}, {NoAthena}, {FALSE}, {<<"job_logs">>})
    /\ ResStart({<<>>})

NextFlow ==
    \/ \E g \in BOOLEAN, c \in FlowConfigs, k \in BOOLEAN : WorkflowInit(g, c, k)
    \/ \E r \in BOOLEAN, w \in BOOLEAN : Step4Begin(r, w)
    \/ \E k \in BOOLEAN : Step4Call(k, TRUE)
    \/ \E k \in BOOLEAN : FlowIdle /\ TransferStart(k, TRUE)
    \/ TransferChecks(TRUE)
    \/ \E f \in 0..1 : TransferCreate(f, TRUE)
    \/ \E k \in BOOLEAN : TransferRun(k, TRUE)
    \/ \E cfg \in FlowConfigs : FlowIdle /\ SetupLogging(cfg)
    \/ \E k \in BOOLEAN : FlowIdle /\ GetLogger(k)
    \/ \E i \in 1..MaxSteps, k \in BOOLEAN : FlowIdle /\ LevelMethod(i, "info", FALSE, k)
    \/ \E i \in 1..MaxSteps, sc \in BOOLEAN, k \in BOOLEAN :
          FlowIdle /\ LogAction(i, "a1", "none", sc, FALSE, k)

SpecFlow == InitFlow /\ [][NextFlow]_vars

(***************************************************************************)
(* Part VI: the inspection query of src/dlt_logger/utils/helpers.py.       *)
(***************************************************************************)
\* the configurations explored: the default table name and another one
InfoConfigs ==
    { [db_path |-> "p", dataset_name |-> "d1", console_logging |-> FALSE,
       athena |-> NoAthena, table_name |-> t, log_level |-> "INFO",
       project_name |-> "app"] : t \in TableNames }

\* the tables of the schema dataset_name of the file db_path: a table exists
\* once a load has written it
TablesIn(db_path, dataset_name) ==
    {t \in TableNames : tables[<<db_path, dataset_name, t>>] # <<>>}

\* os.path.exists(db_path): the first load creates the file
FileExists(db_path) == \E d \in Datasets : TablesIn(db_path, d) # {}

\* get_database_info(db_path, dataset_name, table_name): duckdb.connect of a
\* missing file raises and the error dictionary is returned; total_logs is
\* the row count of dataset_name.table_name and is present only when that
\* table is among the tables of the schema.
GetDatabaseInfoOf(db_path, dataset_name, table_name) ==
    IF ~FileExists(db_path)
      THEN [error |-> TRUE, exists |-> FALSE, has_total |-> FALSE, total_logs |-> 0]
      ELSE LET has == table_name \in TablesIn(db_path, dataset_name)
           IN [error |-> FALSE, exists |-> TRUE, has_total |-> has,
               total_logs |-> IF has THEN Len(tables[<<db_path, dataset_name, table_name>>])
                                     ELSE 0]

\* get_database_info_from_config(): config = get_config();
\* get_database_info(config.db_path, config.dataset_name, table_name="job_logs")
GetDatabaseInfoFromConfig ==
    /\ FlowIdle /\ config # NoConfig
    /\ dbInfo' = GetDatabaseInfoOf(config.db_path, config.dataset_name, "job_logs")
    /\ lastOp' = "get_database_info"
    /\ raised' = FALSE
    /\ UNCHANGED <<athImpl, athCfg, athFile, athFileAtCall, srcTables, athPc, athTrace,
                   athResult, athTodo, athDest, resVars, wfConfig, wfStep4>>
    /\ UNCHANGED <<connOnly, pipeVars, steps, extVars>>

InitInfo == ConnStart({"logger"}) /\ PipeStart({"dlt_logger"}) /\ AthOff

NextInfo ==
    \/ \E cfg \in InfoConfigs : SetupLogging(cfg)
    \/ \E k \in BOOLEAN : GetLogger(k)
    \/ \E i \in 1..MaxSteps, l \in {"none", "WARNING"}, sc \in BOOLEAN, k \in BOOLEAN :
          LogAction(i, "a1", l, sc, FALSE, k)
    \/ GetDatabaseInfoFromConfig

SpecInfo == InitInfo /\ [][NextInfo]_vars

(***************************************************************************)
(* Part VII: the record model, LogEntry of src/tp_logger/models.py and of  *)
(*           src/dlt_logger/logging/models.py.                             *)
(***************************************************************************)
EntryModels == {"tp_logger", "dlt_logger"}

\* The strings passed as context, each with its JSON tokens.
Tokens ==
    [ empty     |-> <<>>,
      words     |-> <<"not", "valid", "json">>,
      object    |-> <<"{", "'key'", ":", "'value'", ",", "'number'", ":", "42", "}">>,
      object0   |-> <<"{", "}">>,
      number    |-> <<"42">>,
      list      |-> <<"[", "1", "]">>,
      quoted    |-> <<"'abc'">>,
      null      |-> <<"null">>,
      truncated |-> <<"{", "'key'", ":">>,
      intkey    |-> <<"{", "1", ":", "42", "}">>,
      trailing  |-> <<"{", "'key'", ":", "1", ",", "}">> ]

Texts == DOMAIN Tokens

NumTokens == {"1", "42"}

\* string literals and their contents
Unquote == [t \in {"'key'", "'value'", "'number'", "'abc'"} |->
               CASE t = "'key'" -> "key" [] t = "'value'" -> "value"
                 [] t = "'number'" -> "number" [] t = "'abc'" -> "abc"]

IsScalarToken(t) == t \in NumTokens \/ t \in DOMAIN Unquote \/ t = "null"

ScalarOf(t) ==
    IF t \in NumTokens THEN Scalar("int", t)
    ELSE IF t \in DOMAIN Unquote THEN Scalar("str", Unquote[t])
    ELSE Scalar("none", "")

\* the members of an object: 'key' : scalar, separated by commas; a later
\* member replaces an earlier one of the same key
RECURSIVE ParseMembers(_)
ParseMembers(m) ==
    IF Len(m) < 3 \/ m[1] \notin DOMAIN Unquote \/ m[2] # ":" \/ ~IsScalarToken(m[3])
      THEN [ok |-> FALSE, items |-> {}]
    ELSE LET first == <<Scalar("str", Unquote[m[1]]), ScalarOf(m[3])>>
         IN IF Len(m) = 3 THEN [ok |-> TRUE, items |-> {first}]
            ELSE IF m[4] # "," THEN [ok |-> FALSE, items |-> {}]
            ELSE LET r == ParseMembers(SubSeq(m, 5, Len(m)))
                 IN [ok |-> r.ok,
                     items |-> {i \in {first} : \A j \in r.items : j[1] # i[1]}
                               \cup r.items]

\* the elements of a list: scalars separated by commas, numbered from 0
RECURSIVE ParseElements(_, _)
ParseElements(m, n) ==
    IF m = <<>> \/ ~IsScalarToken(m[1]) THEN [ok |-> FALSE, items |-> {}]
    ELSE LET first == <<Scalar("int", IF n = 0 THEN "0" ELSE "1"), ScalarOf(m[1])>>
         IN IF Len(m) = 1 THEN [ok |-> TRUE, items |-> {first}]
            ELSE IF m[2] # "," \/ n > 0 THEN [ok |-> FALSE, items |-> {}]
            ELSE LET r == ParseElements(SubSeq(m, 3, Len(m)), n + 1)
                 IN [ok |-> r.ok, items |-> {first} \cup r.items]

\* json.loads(text): the value, or JSONDecodeError (ok = FALSE)
JsonLoads(text) ==
    LET m == Tokens[text]
        n == Len(m)
    IN IF n = 1 /\ IsScalarToken(m[1])
         THEN [ok |-> TRUE, value |-> Py(ScalarOf(m[1]).t, ScalarOf(m[1]).s, {})]
       ELSE IF n >= 2 /\ m[1] = "{" /\ m[n] = "}"
         THEN IF n = 2 THEN [ok |-> TRUE, value |-> Py("dict", "", {})]
              ELSE LET r == ParseMembers(SubSeq(m, 2, n - 1))
                   IN [ok |-> r.ok, value |-> Py("dict", "", r.items)]
       ELSE IF n >= 2 /\ m[1] = "[" /\ m[n] = "]"
         THEN IF n = 2 THEN [ok |-> TRUE, value |-> Py("list", "", {})]
              ELSE LET r == ParseElements(SubSeq(m, 2, n - 1), 0)
                   IN [ok |-> r.ok, value |-> Py("list", "", r.items)]
       ELSE [ok |-> FALSE, value |-> PyNone]

\* Variant: text that is not JSON gives the empty mapping.
ValidateContextDropsText(v) ==
    IF v.t = "none" \/ (v.t = "str" /\ v.s = "empty") THEN Py("dict", "", {})
    ELSE IF v.t = "str"
      THEN IF JsonLoads(v.s).ok THEN JsonLoads(v.s).value ELSE Py("dict", "", {})
    ELSE v

\* LogEntry.validate_context (mode='before'):
\*   if v is None or v == "": return {}
\*   if isinstance(v, str): try: return json.loads(v)
\*                          except json.JSONDecodeError: return {"raw": v}
\*   return v
ValidateContext(v) ==
    IF v.t = "none" \/ (v.t = "str" /\ v.s = "empty") THEN Py("dict", "", {})
    ELSE IF v.t = "str"
      THEN IF JsonLoads(v.s).ok
             THEN JsonLoads(v.s).value
             ELSE Py("dict", "", {<<Scalar("str", "raw"), Scalar("str", v.s)>>})
    ELSE v

\* context: Dict[str, Any]: the value is a dict and its keys are strings
IsStrDict(v) == v.t = "dict" /\ \A i \in v.items : i[1].t = "str"

\* Variant: level declared str, every string is accepted.
LevelAcceptedAny(l) == TRUE

\* level: Literal["DEBUG", "INFO", "WARNING", "ERROR", "CRITICAL"]
LevelAccepted(l) == l \in Levels

\* the fields a model declares, of those that matter here
DeclaredFields(model) == IF model = "tp_logger" THEN {"level", "context"} ELSE {"level"}

\* LogEntry(project_name=..., run_id=..., level=..., context=...): a
\* keyword that is not given takes the default ("INFO", dict()) without
\* validation, a keyword the model does not declare is ignored, a given
\* value is validated; ok = FALSE is ValidationError.
Construct(model, level, context) ==
    LET hasContext == "context" \in DeclaredFields(model)
        ctx == IF ~hasContext THEN PyNone
               ELSE IF context.given THEN ValidateContext(context.v)
               ELSE Py("dict", "", {})
        levelOk == ~level.given \/ LevelAccepted(level.v)
        ctxOk == ~hasContext \/ ~context.given \/ IsStrDict(ctx)
    IN IF levelOk /\ ctxOk
         THEN [model |-> model, level |-> level, context |-> context, ok |-> TRUE,
               fields |-> DeclaredFields(model),
               rec_level |-> IF level.given THEN level.v ELSE "INFO",
               rec_context |-> ctx, numbers |-> NoNumbers]
         ELSE [model |-> model, level |-> level, context |-> context, ok |-> FALSE,
               fields |-> {}, rec_level |-> "", rec_context |-> PyNone,
               numbers |-> NoNumbers]

\* Optional[int]: None and an int pass as they are, a str passes when it is
\* the decimal text of an int and becomes that int, any other str is an
\* error (ok = FALSE); no bound is declared
ValidateOptionalInt(v) ==
    CASE v.t = "none" -> [ok |-> TRUE, value |-> NumNone]
      [] v.t = "int" -> [ok |-> TRUE, value |-> v]
      [] v.t = "str" /\ v.s = "-3" -> [ok |-> TRUE, value |-> Num("int", 0 - 3, "")]
      [] v.t = "str" /\ v.s = "200" -> [ok |-> TRUE, value |-> Num("int", 200, "")]
      [] OTHER -> [ok |-> FALSE, value |-> NumNone]

\* LogEntry(project_name=..., run_id=..., status_code=..., duration_ms=...):
\* level and context take their defaults; status_code: Optional[int] = None
\* and duration_ms: Optional[int] = None are validated when given
ConstructNumbers(model, status_code, duration_ms) ==
    LET base == Construct(model, [given |-> FALSE, v |-> ""], [given |-> FALSE, v |-> PyNone])
        sc == IF status_code.given THEN ValidateOptionalInt(status_code.v)
              ELSE [ok |-> TRUE, value |-> NumNone]
        dur == IF duration_ms.given THEN ValidateOptionalInt(duration_ms.v)
               ELSE [ok |-> TRUE, value |-> NumNone]
        errors == (IF sc.ok THEN {} ELSE {"status_code"})
                  \cup (IF dur.ok THEN {} ELSE {"duration_ms"})
    IN IF errors = {}
         THEN [base EXCEPT !.numbers =
                  [status_code |-> status_code, duration_ms |-> duration_ms,
                   rec_status_code |-> sc.value, rec_duration_ms |-> dur.value,
                   errors |-> {}]]
         ELSE [base EXCEPT !.ok = FALSE, !.fields = {}, !.rec_level = "",
                           !.rec_context = PyNone,
                           !.numbers =
                  [status_code |-> status_code, duration_ms |-> duration_ms,
                   rec_status_code |-> NumNone, rec_duration_ms |-> NumNone,
                   errors |-> errors]]

\* the status_code / duration_ms arguments explored
NumberArgs ==
    {[given |-> FALSE, v |-> NumNone], [given |-> TRUE, v |-> NumNone]}
    \cup {[given |-> TRUE, v |-> Num("int", n, "")] : n \in {0 - 5, 0 - 1, 0, 200, 1500}}
    \cup {[given |-> TRUE, v |-> Num("str", 0, t)] : t \in {"abc", "-3", "200"}}

\* the level arguments explored
LevelArgs ==
    {[given |-> FALSE, v |-> ""]}
    \cup {[given |-> TRUE, v |-> l] : l \in Levels \cup {"INVALID", "info", ""}}

\* the context arguments explored: not given, None, strings, mappings (one
\* of them with a key that is not a string), a number and a list
ContextArgs ==
    {[given |-> FALSE, v |-> PyNone], [given |-> TRUE, v |-> PyNone]}
    \cup {[given |-> TRUE, v |-> Py("str", t, {})] : t \in Texts}
    \cup {[given |-> TRUE, v |-> Py("dict", "", i)] :
             i \in { {},
                     {<<Scalar("str", "key1"), Scalar("str", "value1")>>,
                      <<Scalar("str", "key2"), Scalar("int", "123")>>},
                     {<<Scalar("int", "1"), Scalar("str", "a")>>} }}
    \cup {[given |-> TRUE, v |-> Py("int", "5", {})],
          [given |-> TRUE, v |-> Py("list", "", {<<Scalar("int", "0"), Scalar("int", "1")>>})]}

NewLogEntry(model, level, context) ==
    /\ FlowIdle /\ steps < MaxSteps
    /\ steps' = steps + 1
    /\ lastOp' = "LogEntry"
    /\ entry' = Construct(model, level, context)
    /\ raised' = ~entry'.ok
    /\ UNCHANGED <<athImpl, athCfg, athFile, athFileAtCall, srcTables, athPc, athTrace,
                   athResult, athTodo, athDest, resVars, wfVars, lastSetup, wrap, wfRun, sink>>
    /\ UNCHANGED <<connOnly, pipeVars>>

NewLogEntryNumbers(model, status_code, duration_ms) ==
    /\ FlowIdle /\ steps < MaxSteps
    /\ steps' = steps + 1
    /\ lastOp' = "LogEntryNumbers"
    /\ entry' = ConstructNumbers(model, status_code, duration_ms)
    /\ raised' = ~entry'.ok
    /\ UNCHANGED <<athImpl, athCfg, athFile, athFileAtCall, srcTables, athPc, athTrace,
                   athResult, athTodo, athDest, resVars, wfVars, lastSetup, wrap, wfRun, sink>>
    /\ UNCHANGED <<connOnly, pipeVars>>

InitEntry == ConnStart({"logger"}) /\ PipeStart({"dlt_logger"}) /\ AthOff

NextEntry ==
    \/ \E model \in EntryModels, level \in LevelArgs, context \in ContextArgs :
          NewLogEntry(model, level, context)
    \/ \E model \in EntryModels, status_code \in NumberArgs, duration_ms \in NumberArgs :
          NewLogEntryNumbers(model, status_code, duration_ms)

SpecEntry == InitEntry /\ [][NextEntry]_vars

(***************************************************************************)
(* Part VIII: setup_logging(kwargs...) with the validation of               *)
(*            LoggerConfig.__init__.                                       *)
(***************************************************************************)
\* the keyword arguments explored; for the optional strings (aws_s3_bucket
\* and the three Athena settings) TRUE stands for a non-empty string and
\* FALSE for None or ""
SetupKwargs ==
    [db_path : {"p", "q"}, dataset_name : {"d1"}, console_logging : {FALSE},
     table_name : {"job_logs"}, log_level : {"INFO"}, project_name : {"app"},
     athena : {a \in AthConfigs : a.athena_destination \/ a = NoAthena},
     sync_to_s3 : BOOLEAN, aws_s3_bucket : BOOLEAN]

\* Variant: the Athena settings are not validated.
LoggerConfigInitS3Only(kw) ==
    LET cfg == [db_path |-> kw.db_path, dataset_name |-> kw.dataset_name,
                console_logging |-> kw.console_logging, athena |-> kw.athena,
                table_name |-> kw.table_name, log_level |-> kw.log_level,
                project_name |-> kw.project_name]
    IN IF kw.sync_to_s3 /\ ~kw.aws_s3_bucket
         THEN [ok |-> FALSE, error |-> "ValueError", names |-> "aws_s3_bucket", cfg |-> NoConfig]
       ELSE [ok |-> TRUE, error |-> "none", names |-> "", cfg |-> cfg]

\* LoggerConfig(kw...): the attributes are assigned, then
\*   if self.sync_to_s3 and not self.aws_s3_bucket: raise ValueError
\*   if self.athena_destination:
\*       if not self.aws_region: raise ValueError
\*       if not self.athena_database: raise ValueError
\*       if not self.athena_s3_staging_bucket: raise ValueError
\* names: the setting the message of the error names. The S3 attributes
\* are read by nothing else and are not kept in the configuration record.
LoggerConfigInit(kw) ==
    LET cfg == [db_path |-> kw.db_path, dataset_name |-> kw.dataset_name,
                console_logging |-> kw.console_logging, athena |-> kw.athena,
                table_name |-> kw.table_name, log_level |-> kw.log_level,
                project_name |-> kw.project_name]
        Raise(name) == [ok |-> FALSE, error |-> "ValueError", names |-> name, cfg |-> NoConfig]
    IN IF kw.sync_to_s3 /\ ~kw.aws_s3_bucket THEN Raise("aws_s3_bucket")
       ELSE IF kw.athena.athena_destination /\ ~kw.athena.aws_region
         THEN Raise("aws_region")
       ELSE IF kw.athena.athena_destination /\ ~kw.athena.athena_database
         THEN Raise("athena_database")
       ELSE IF kw.athena.athena_destination /\ ~kw.athena.athena_s3_staging_bucket
         THEN Raise("athena_s3_staging_bucket")
       ELSE [ok |-> TRUE, error |-> "none", names |-> "", cfg |-> cfg]

\* setup_logging(kwargs...):
\*   config = LoggerConfig(kwargs...)     (an exception leaves from here)
\*   set_config(config)
\*   pipeline_module._pipeline = None
\*   if config.console_logging: setup_console_logging()
SetupLoggingKwargs(kw) ==
    /\ FlowIdle /\ steps < MaxSteps
    /\ steps' = steps + 1
    /\ lastOp' = "setup_logging"
    /\ LET r == LoggerConfigInit(kw) IN
         /\ lastSetup' = [called |-> TRUE, kwargs |-> kw, error |-> r.error]
         /\ raised' = ~r.ok
         /\ IF r.ok
              THEN /\ config' = r.cfg
                   /\ athCfg' = r.cfg.athena
                   /\ sink' = SinkAfterSetup(r.cfg)
                   /\ pipeline' = NoPipeline
                   /\ builtSinceSetup' = 0
                   /\ returned' = {}
              ELSE UNCHANGED <<config, athCfg, pipeline, builtSinceSetup, returned, sink>>
    /\ UNCHANGED <<variant, builtTotal, retPipe, loggers, tables, written, lastCall,
                   failures, RUN_ID, console>>
    /\ UNCHANGED <<connOnly, athImpl, athFile, athFileAtCall, srcTables, athPc, athTrace,
                   athResult, athTodo, athDest, resVars, wfVars, entry, wrap, wfRun>>

InitSetup == ConnStart({"logger"}) /\ PipeStart({"dlt_logger"}) /\ AthOff

NextSetup ==
    \/ \E kw \in SetupKwargs : SetupLoggingKwargs(kw)
    \/ \E k \in BOOLEAN : GetPipeline(k)

SpecSetup == InitSetup /\ [][NextSetup]_vars

(***************************************************************************)
(* Part IX: log_execution and timed_operation                              *)
(*          (src/dlt_logger/logging/decorators.py).                        *)
(***************************************************************************)
\* the keywords _create_log_entry declares besides level and message
DeclaredKeywords == {"action", "function_name", "success", "status_code", "duration_ms",
                     "request_method", "context"}

\* the log_kwargs of timed_operation explored, each the set of its keys
LogKwargs == {{}, {"context"}, {"user_id"}, {"success"}, {"duration_ms"}}

\* the record a log call hands to storage; success is "none" when the
\* keyword is not passed; stored: pipeline.run took it
WrapRecord(msg, level, success, duration, stored) ==
    [msg |-> msg, level |-> level, success |-> success, duration |-> duration,
     stored |-> stored]

\* logger.info / logger._log called with the keywords named in the call
\* (explicit) and with log_kwargs (kw) unpacked: a keyword given twice is a
\* TypeError at the call, a keyword _create_log_entry does not declare is a
\* TypeError inside _log; otherwise the record is created and handed to
\* pipeline.run, whose failure is printed and swallowed
LogCall(rec, explicit, kw) ==
    IF kw \cap explicit # {} THEN [raised |-> TRUE, emitted |-> <<>>]
    ELSE IF ~(kw \subseteq DeclaredKeywords) THEN [raised |-> TRUE, emitted |-> <<>>]
    ELSE [raised |-> FALSE,
          emitted |-> <<[rec EXCEPT !.duration = rec.duration \/ "duration_ms" \in kw]>>]

\* except Exception as e: log_exception(action, e); _log(level="ERROR",
\* message="Failed ...", action=..., success=False, duration_ms=...,
\* [function_name=... | **log_kwargs]); raise
Handler(e, kw, sofar, w) ==
    LET ex == WrapRecord("Exception", "ERROR", "false", FALSE, w)
        failed == LogCall(WrapRecord("Failed", "ERROR", "false", TRUE, w),
                          {"level", "message", "action", "success", "duration_ms"}, kw)
    IN IF failed.raised
         THEN [emitted |-> sofar \o <<ex>>, outcome |-> "raised", exc |-> "handler",
               value |-> "-"]
         ELSE [emitted |-> sofar \o <<ex>> \o failed.emitted, outcome |-> "raised",
               exc |-> e, value |-> "-"]

\* the try block of both wrappers: the Starting call (named keywords
\* startKeys, success passed as startSuccess), the body, the Completed call
Guarded(startKeys, startSuccess, kw, body, result, w) ==
    LET starting == LogCall(WrapRecord("Starting", "INFO",
                                       IF "success" \in kw THEN "given" ELSE startSuccess,
                                       FALSE, w),
                            startKeys, kw)
        completed == LogCall(WrapRecord("Completed", "INFO", "true", TRUE, w),
                             startKeys \cup {"success", "duration_ms"}, kw)
    IN IF starting.raised
         THEN [ran |-> FALSE] @@ Handler("log", kw, <<>>, w)
       ELSE IF body = "raises"
         THEN [ran |-> TRUE] @@ Handler("body", kw, starting.emitted, w)
       ELSE IF completed.raised
         THEN [ran |-> TRUE] @@ Handler("log", kw, starting.emitted, w)
       ELSE [ran |-> TRUE, emitted |-> starting.emitted \o completed.emitted,
             outcome |-> "returned", exc |-> "-", value |-> result]

\* wrapper(*args): dlt_logger = TPLogger(module_name) comes before the try
\* and raises when the logger cannot be built; then the try block with
\* action, function_name and success=True named in the Starting call
LogExecution(loggerOk, body, result, w) ==
    IF ~loggerOk
      THEN [ran |-> FALSE, emitted |-> <<>>, outcome |-> "raised", exc |-> "logger",
            value |-> "-"]
      ELSE Guarded({"action", "function_name", "success"}, "true", {}, body, result, w)

\* with timed_operation(dlt_logger, action, **log_kwargs): the try block
\* with action named in the Starting call and log_kwargs added to each call;
\* the block has no value
TimedOperation(kw, body, w) == Guarded({"action"}, "none", kw, body, "-", w)

WrapperBase(kind, kw, body, result, r) ==
    /\ FlowIdle /\ steps < MaxSteps
    /\ steps' = steps + 1
    /\ lastOp' = kind
    /\ wrap' = [kind |-> kind, kw |-> kw, body |-> body, result |-> result] @@ r
    /\ raised' = (r.outcome = "raised")
    /\ UNCHANGED <<athImpl, athCfg, athFile, athFileAtCall, srcTables, athPc, athTrace,
                   athResult, athTodo, athDest, resVars, wfVars, entry, lastSetup, wfRun, sink>>
    /\ UNCHANGED <<connOnly, pipeVars>>

CallWrapped(loggerOk, body, result, w) ==
    WrapperBase("log_execution", {}, body, result, LogExecution(loggerOk, body, result, w))

RunTimedBlock(kw, body, w) ==
    WrapperBase("timed_operation", kw, body, "-", TimedOperation(kw, body, w))

Bodies == {"returns", "raises"}

Results == {"r1", "r2"}

InitWrap == ConnStart({"logger"}) /\ PipeStart({"dlt_logger"}) /\ AthOff

NextWrap ==
    \/ \E k \in BOOLEAN, b \in Bodies, r \in Results, w \in BOOLEAN : CallWrapped(k, b, r, w)
    \/ \E kw \in LogKwargs, b \in Bodies, w \in BOOLEAN : RunTimedBlock(kw, b, w)

SpecWrap == InitWrap /\ [][NextWrap]_vars

(***************************************************************************)
(* Part X: WorkflowManager.run_complete_workflow.                          *)
(***************************************************************************)
\* the keys of results["steps"], in the order of the calls
StepNames == <<"1_configuration", "2_sample_logs", "3_duckdb_verification",
               "4_athena_transfer">>

RECURSIVE All(_)
All(seq) == IF seq = <<>> THEN TRUE ELSE Head(seq).success /\ All(Tail(seq))

\* run_complete_workflow(): results = {"steps": {}, "overall_success": False}
\* and the first two log calls; it is a method, so a manager exists
WorkflowStart ==
    /\ FlowIdle /\ steps < MaxSteps
    /\ wfStep4 # "absent"
    /\ wfRun.pc \in {"idle", "done"}
    /\ steps' = steps + 1
    /\ lastOp' = "run_complete_workflow"
    /\ raised' = FALSE
    /\ wfRun' = [pc |-> "1", ran |-> <<>>, entries |-> <<>>, overall_success |-> FALSE,
                 returned |-> FALSE]
    /\ UNCHANGED <<athImpl, athCfg, athFile, athFileAtCall, srcTables, athPc, athTrace,
                   athResult, athTodo, athDest, resVars, wfVars, entry, lastSetup, wrap, sink>>
    /\ UNCHANGED <<connOnly, pipeVars>>

\* Variant: the workflow goes on after a failed step.
WorkflowStepAlwaysOn(n, success) ==
    /\ wfRun.pc = CASE n = 1 -> "1" [] n = 2 -> "2" [] n = 3 -> "3" [] OTHER -> "4"
    /\ LET entries == Append(wfRun.entries, [name |-> StepNames[n], success |-> success])
           ran == Append(wfRun.ran, n)
       IN wfRun' =
            IF n < 4
              THEN [wfRun EXCEPT !.pc = CASE n = 1 -> "2" [] n = 2 -> "3" [] OTHER -> "4",
                                 !.ran = ran, !.entries = entries]
            ELSE [wfRun EXCEPT !.pc = "done", !.ran = ran, !.entries = entries,
                               !.overall_success = All(entries), !.returned = TRUE]
    /\ lastOp' = "run_complete_workflow"
    /\ raised' = FALSE
    /\ UNCHANGED <<athImpl, athCfg, athFile, athFileAtCall, srcTables, athPc, athTrace,
                   athResult, athTodo, athDest, resVars, wfVars, entry, lastSetup, wrap, sink>>
    /\ UNCHANGED <<connOnly, pipeVars, steps>>

\* the next step of the workflow and what follows it up to the next call;
\* success is what the step method returns (each returns True, or False
\* from one of its checks or from its except branch):
\*   results["steps"][name] = {"success": self.step_n(), ...}
\*   steps 1 to 3: if not results["steps"][name]["success"]: return results
\*   step 4: results["overall_success"] = all(step["success"] ...); return
WorkflowStep(n, success) ==
    /\ wfRun.pc = CASE n = 1 -> "1" [] n = 2 -> "2" [] n = 3 -> "3" [] OTHER -> "4"
    /\ LET entries == Append(wfRun.entries, [name |-> StepNames[n], success |-> success])
           ran == Append(wfRun.ran, n)
       IN wfRun' =
            IF n < 4 /\ ~success
              THEN [wfRun EXCEPT !.pc = "done", !.ran = ran, !.entries = entries,
                                 !.returned = TRUE]
            ELSE IF n < 4
              THEN [wfRun EXCEPT !.pc = CASE n = 1 -> "2" [] n = 2 -> "3" [] OTHER -> "4",
                                 !.ran = ran, !.entries = entries]
            ELSE [wfRun EXCEPT !.pc = "done", !.ran = ran, !.entries = entries,
                               !.overall_success = All(entries), !.returned = TRUE]
    /\ lastOp' = "run_complete_workflow"
    /\ raised' = FALSE
    /\ UNCHANGED <<athImpl, athCfg, athFile, athFileAtCall, srcTables, athPc, athTrace,
                   athResult, athTodo, athDest, resVars, wfVars, entry, lastSetup, wrap, sink>>
    /\ UNCHANGED <<connOnly, pipeVars, steps>>

InitRun == InitFlow

NextRun ==
    \/ \E g \in BOOLEAN, c \in FlowConfigs, k \in BOOLEAN :
          wfRun.pc \in {"idle", "done"} /\ WorkflowInit(g, c, k)
    \/ WorkflowStart
    \/ \E n \in 1..4, success \in BOOLEAN : WorkflowStep(n, success)

SpecRun == InitRun /\ [][NextRun]_vars

(***************************************************************************)
(* Part XI: the minimum level (log_level) and the two sinks.               *)
(***************************************************************************)
\* configurations that differ in the console switch and in log_level
LevelConfigs ==
    { [db_path |-> "p", dataset_name |-> "d1", console_logging |-> c,
       athena |-> NoAthena, table_name |-> "job_logs", log_level |-> l,
       project_name |-> "app"] :
       c \in BOOLEAN, l \in {"DEBUG", "WARNING", "ERROR"} }

InitLevel == ConnStart({"logger"}) /\ PipeStart(Variants) /\ AthOff

NextLevel ==
    \/ \E cfg \in LevelConfigs : SetupLogging(cfg)
    \/ \E k \in BOOLEAN : GetLogger(k)
    \/ \E i \in 1..MaxSteps, m \in LevelMethods, k \in BOOLEAN : LevelMethod(i, m, FALSE, k)

SpecLevel == InitLevel /\ [][NextLevel]_vars

(***************************************************************************)
(* Part XII: what a TPLogger captured at construction, across later        *)
(* setup_logging calls.                                                    *)
(***************************************************************************)
\* configurations that differ in project_name, in the console switch and in
\* the database file
CaptureConfigs ==
    { [db_path |-> d, dataset_name |-> "d1", console_logging |-> c,
       athena |-> NoAthena, table_name |-> "job_logs", log_level |-> "INFO",
       project_name |-> n] :
       d \in {"p", "q"}, c \in BOOLEAN, n \in {"app", "app2"} }

InitCapture == ConnStart({"logger"}) /\ PipeStart(Variants) /\ AthOff

NextCapture ==
    \/ \E cfg \in CaptureConfigs : SetupLogging(cfg)
    \/ \E k \in BOOLEAN : GetLogger(k)
    \/ \E i \in 1..MaxSteps, m \in LevelMethods, k \in BOOLEAN : LevelMethod(i, m, FALSE, k)

SpecCapture == InitCapture /\ [][NextCapture]_vars

(***************************************************************************)
(* Part XIII: EnhancedLogger of src/logger.py: the console emission, the   *)
(* handler's INSERT, and the level of the three action methods.            *)
(***************************************************************************)
\* the level argument absent (level=None)
NoLevel == "None"

\* level strings a caller can pass
LevelStrings ==
    {"INFO", "info", "Warning", "DEBUG", "ERROR", "error", "Critical", "TRACE", "trace",
     "verbose", ""}

\* str.upper()
StrUpper ==
    [l \in LevelStrings |->
        CASE l = "INFO" -> "INFO" [] l = "info" -> "INFO"
          [] l = "Warning" -> "WARNING" [] l = "DEBUG" -> "DEBUG"
          [] l = "ERROR" -> "ERROR"
          [] l = "error" -> "ERROR" [] l = "Critical" -> "CRITICAL"
          [] l = "TRACE" -> "TRACE" [] l = "trace" -> "TRACE"
          [] l = "verbose" -> "VERBOSE" [] l = "" -> ""]

\* str.lower()
StrLower ==
    [l \in LevelStrings |->
        CASE l = "INFO" -> "info" [] l = "info" -> "info"
          [] l = "Warning" -> "warning" [] l = "DEBUG" -> "debug"
          [] l = "ERROR" -> "error"
          [] l = "error" -> "error" [] l = "Critical" -> "critical"
          [] l = "TRACE" -> "trace" [] l = "trace" -> "trace"
          [] l = "verbose" -> "verbose" [] l = "" -> ""]

\* Variant: the level is defaulted when absent and never validated.
ActionLevelUnvalidated(level, success) ==
    IF level = NoLevel THEN (IF success THEN "INFO" ELSE "ERROR") ELSE level

\* if level is None: level = "INFO" if success else "ERROR"
\* if level.upper() not in valid_levels: level = "INFO" if success else "ERROR"
ActionLevel(level, success) ==
    LET given == IF level = NoLevel THEN (IF success THEN "INFO" ELSE "ERROR")
                                    ELSE level
    IN IF StrUpper[given] \notin {"DEBUG", "INFO", "WARNING", "ERROR", "CRITICAL"}
         THEN (IF success THEN "INFO" ELSE "ERROR")
         ELSE given

\* Variant: a failed INSERT leaves the handler as it was.
AfterInsertFailureKeeps(h) == h

\* except Exception as e: self.db_available = False
AfterInsertFailure(h) == [h EXCEPT !.db_available = FALSE]

\* EnhancedLogger._log(level, message, ...) on logger number i, whose
\* db_handler is handler number i: the loguru method named level.lower() is
\* called when CONSOLE_LOGGING_ENABLED is set (an unknown name raises
\* AttributeError out of the call), then db_handler.log_to_db with
\* level.upper() when LOGGER_ENABLED is set.  log_to_db returns at once when
\* the handler is not available; a failed INSERT is caught there and clears
\* db_available.
EnhancedLog(op, i, given, success, level, consoleEnabled, loggerEnabled, engineOk) ==
    /\ pc = "idle" /\ steps < MaxSteps
    /\ i \in 1..Len(handlers)
    /\ LET h == handlers[i]
           consoleRaises == consoleEnabled /\ StrLower[level] \notin LoguruMethods
           toDb == ~consoleRaises /\ loggerEnabled
           skip == (~h.db_available) \/ h.connection = NoConn
           ok == /\ h.connection # NoConn
                 /\ tableExists[h.connection.path]
                 /\ StrUpper[level] \in Levels
                 /\ engineOk
       IN /\ raised' = consoleRaises
          /\ console' = IF consoleEnabled /\ ~consoleRaises
                          THEN Append(console, [id |-> steps + 1, logger |-> i])
                          ELSE console
          /\ lastLog' = [handler |-> i, skipped |-> (toDb /\ skip),
                         failed |-> (toDb /\ ~skip /\ ~ok),
                         inserted |-> (toDb /\ ~skip /\ ok),
                         given |-> given, success |-> success, level |-> level,
                         consoleEnabled |-> consoleEnabled]
          /\ store' = IF toDb /\ ~skip /\ ok
                        THEN [store EXCEPT ![h.connection.path] =
                                Append(@, [handler |-> i, level |-> StrUpper[level]])]
                        ELSE store
          /\ handlers' = IF toDb /\ ~skip /\ ~ok
                           THEN [handlers EXCEPT ![i] = AfterInsertFailure(@)]
                           ELSE handlers
    /\ steps' = steps + 1
    /\ lastOp' = op
    /\ UNCHANGED <<impl, db_connection, pc, call, attempt, trace, ret, tableExists>>
    /\ UNCHANGED <<variant, config, pipeline, builtTotal, builtSinceSetup, returned,
                   retPipe, loggers, tables, written, lastCall, failures, RUN_ID>>
    /\ UNCHANGED athVars

\* EnhancedLogger.debug / info / warning / error / critical
EnhancedLevelMethod(i, m, consoleEnabled, loggerEnabled, engineOk) ==
    EnhancedLog(m, i, MethodLevel[m], TRUE, MethodLevel[m], consoleEnabled,
                loggerEnabled, engineOk)

ActionMethods == {"log_spider_action", "log_pipeline_action", "log_middleware_action"}

\* EnhancedLogger.log_spider_action / log_pipeline_action /
\* log_middleware_action(action, message, success, level, ...)
EnhancedLogAction(op, i, success, level, consoleEnabled, loggerEnabled, engineOk) ==
    EnhancedLog(op, i, level, success, ActionLevel(level, success), consoleEnabled,
                loggerEnabled, engineOk)

\* EnhancedLogger(module_name, db_path): the constructor of its
\* DatabaseLogHandler calls get_db_connection(db_path)
HandlerArgs == {c \in CallArgs : c.caller = "handler"}

InitEnhanced == ConnStart({"logger"}) /\ PipeStart({"dlt_logger"}) /\ AthOff

NextEnhanced ==
    \/ \E c \in HandlerArgs : GetDbConnectionCached(c)
    \/ \E c \in HandlerArgs : GetDbConnectionMakedirsFails(c)
    \/ \E c \in HandlerArgs : GetDbConnectionStart(c)
    \/ \E t \in BOOLEAN : ConnectSucceeds(t)
    \/ \E e \in ErrorMessages : ConnectLockedRetry(e)
    \/ \E e \in ErrorMessages : ConnectFailsGiveUp(e)
    \/ \E i \in 1..MaxSteps, m \in {"info", "debug"}, c \in BOOLEAN, l \in BOOLEAN,
          k \in BOOLEAN :
          EnhancedLevelMethod(i, m, c, l, k)

SpecEnhanced == InitEnhanced /\ [][NextEnhanced]_vars

\* the level arguments explored: absent, valid in lower and mixed case, a
\* loguru method that is not a level, an unknown word
ActionLevelArgs == {NoLevel, "info", "Warning", "TRACE", "verbose"}

InitAction == InitEnhanced

\* the settings at their defaults (CONSOLE_LOGGING_ENABLED, LOGGER_ENABLED)
NextAction ==
    \/ \E c \in HandlerArgs : c.path = "p" /\ GetDbConnectionCached(c)
    \/ \E c \in HandlerArgs : c.path = "p" /\ GetDbConnectionStart(c)
    \/ \E t \in BOOLEAN : ConnectSucceeds(t)
    \/ \E e \in ErrorMessages : ConnectLockedRetry(e)
    \/ \E e \in ErrorMessages : ConnectFailsGiveUp(e)
    \/ \E op \in ActionMethods, i \in 1..MaxSteps, success \in BOOLEAN,
          level \in ActionLevelArgs :
          EnhancedLogAction(op, i, success, level, TRUE, TRUE, TRUE)

SpecAction == InitAction /\ [][NextAction]_vars

(***************************************************************************)
(* Properties of the transfer.                                             *)
(***************************************************************************)
AthEvents(evs) == {k \in DOMAIN athTrace : athTrace[k].ev \in evs}

DestinationEvents == {"create_destination", "open_source", "upload_ok", "upload_fail"}

Uploads == SelectSeq(athTrace, LAMBDA x : x.ev \in {"upload_ok", "upload_fail"})

RECURSIVE TablesOf(_)
TablesOf(evs) == IF evs = <<>> THEN <<>> ELSE <<Head(evs).table>> \o TablesOf(Tail(evs))

Accepted == TablesOf(SelectSeq(athTrace, LAMBDA x : x.ev = "upload_ok"))

\* the uploads a complete transfer makes
Eligible ==
    IF athImpl = "upload" THEN SelectSeq(srcTables, LAMBDA t : ~IsDltTable(t))
                          ELSE <<"job_logs">>

\* C17: a transfer_to_athena call made while athena_destination is false,
\* or a coordinate is unset, or the store file does not exist, creates no
\* destination pipeline, never opens the source store for reading, runs no
\* destination write, and returns False.
C17_FailedPreconditionNoTransfer ==
    (/\ athImpl # "upload" /\ lastOp = "transfer"
     /\ (~athCfg.athena_destination \/ ~AllCoordinates(athCfg) \/ ~athFileAtCall))
    => /\ AthEvents(DestinationEvents) = {}
       /\ athPc = "idle" => athResult = "false"

\* C18: in every run of the transfer, no write or read against the embedded
\* store and no destination call comes before a precondition check.
C18_ChecksBeforeIO ==
    \A i, k \in DOMAIN athTrace :
        (/\ athTrace[i].ev \in (DestinationEvents \cup {"store_write"})
         /\ athTrace[k].ev \in {"check_destination", "check_coordinates", "check_file"})
        => k < i

\* C19: a transfer_to_athena call made while athena_destination is False,
\* or while it is True and a coordinate is None, ends by raising ValueError.
C19_TransferRaisesValueError ==
    (/\ athImpl # "upload" /\ lastOp = "transfer" /\ athPc = "idle"
     /\ (~athCfg.athena_destination \/ ~AllCoordinates(athCfg)))
    => athResult = "ValueError"

\* C20: the transfer returns True only when every eligible upload was
\* accepted; a failing upload is the last upload the call attempts and the
\* call returns False; the uploads accepted before it stay at the
\* destination.
C20_FirstFailureAborts ==
    lastOp = "transfer" =>
        /\ (athPc = "idle" /\ athResult = "true") =>
              (AthEvents({"upload_fail"}) = {} /\ Accepted = Eligible)
        /\ AthEvents({"upload_fail"}) # {} =>
              /\ Cardinality(AthEvents({"upload_fail"})) = 1
              /\ Uploads[Len(Uploads)].ev = "upload_fail"
              /\ athPc = "idle" /\ athResult = "false"
        /\ Len(Accepted) <= Len(athDest)
        /\ SubSeq(athDest, Len(athDest) - Len(Accepted) + 1, Len(athDest)) = Accepted

C20_Witness ==
    /\ lastOp = "transfer" /\ athPc = "idle" /\ athResult = "false"
    /\ athImpl = "upload" /\ Len(Uploads) = 2
    /\ Uploads[1] = ATab("upload_ok", "events")
    /\ Uploads[2] = ATab("upload_fail", "job_logs")
    /\ athDest = <<"events">>

\* the names explored that start with the reserved prefix "_dlt"
ReservedNames == {"_dlt_loads"}

UploadsOf(t) == {k \in DOMAIN athTrace :
                    athTrace[k].ev \in {"upload_ok", "upload_fail"} /\ athTrace[k].table = t}

DatasetTables == {srcTables[k] : k \in DOMAIN srcTables}

\* an upload_to_athena call that got as far as the loop over the tables has ended
UploadLoopEnded ==
    /\ athImpl = "upload" /\ lastOp = "transfer" /\ athPc = "idle"
    /\ athResult \in {"true", "false"} /\ AthEvents({"raise"}) = {}

\* C21 as stated: whatever the tables of the dataset, the transfer runs
\* exactly one destination upload per table whose name does not start with
\* "_dlt" and none for a table whose name starts with it.
C21_OneUploadPerTable ==
    UploadLoopEnded =>
        \A t \in DatasetTables :
            Cardinality(UploadsOf(t)) = IF t \in ReservedNames THEN 0 ELSE 1

\* C21 amended: upload_to_athena never runs an upload for a table whose name
\* starts with "_dlt" and never more than one for any table; the tables it
\* uploads are, in schema order, the first of those without the prefix; a
\* call that returns True has run exactly one upload for each of them.
C21_UploadsSkipReserved ==
    (athImpl = "upload" /\ lastOp = "transfer") =>
        /\ \A t \in DatasetTables :
              Cardinality(UploadsOf(t)) <= IF t \in ReservedNames THEN 0 ELSE 1
        /\ LET want == SelectSeq(srcTables, LAMBDA t : t \notin ReservedNames)
               done == TablesOf(Uploads)
           IN /\ Len(done) <= Len(want)
              /\ done = SubSeq(want, 1, Len(done))
              /\ (athPc = "idle" /\ athResult = "true") => done = want

C21_Witness ==
    /\ athImpl = "upload" /\ lastOp = "transfer" /\ athPc = "idle" /\ athResult = "true"
    /\ srcTables = <<"_dlt_loads", "events", "job_logs">>
    /\ athTrace[Len(athTrace) - 2] = ATab("skip", "_dlt_loads")
    /\ TablesOf(Uploads) = <<"events", "job_logs">>

(***************************************************************************)
(* Properties of job_logs_resource.                                        *)
(***************************************************************************)
\* ceil(n / b)
Ceil(n, b) == (n + b - 1) \div b

\* C22: for a table of N rows and batch size B >= 1, job_logs_resource
\* yields ceil(N/B) batches, all but the last of size B, the last of size
\* N - B*(ceil(N/B) - 1), never an empty one (none when N = 0); the batches
\* are pairwise disjoint and their concatenation in yield order is the
\* cursor's row sequence.
C22_BatchesPartitionRows ==
    lastOp = "resource" =>
        LET N == Len(resRows)
            n == Len(resBatches)
        IN /\ \A k \in 1..n : Len(resBatches[k]) \in 1..resB
           /\ \A k \in 1..(n - 1) : Len(resBatches[k]) = resB
           /\ Flatten(resBatches) = SubSeq(resRows, 1, resPos)
           /\ \A i, j \in 1..n : i # j =>
                 \A a \in DOMAIN resBatches[i], b \in DOMAIN resBatches[j] :
                     resBatches[i][a] # resBatches[j][b]
           /\ resPc # "reading" =>
                 /\ n = Ceil(N, resB)
                 /\ Flatten(resBatches) = resRows
                 /\ n > 0 => Len(resBatches[n]) = N - resB * (n - 1)

C22_Witness ==
    /\ lastOp = "resource" /\ resPc = "loading"
    /\ Len(resRows) = 5 /\ resB = 2
    /\ Len(resBatches) = 3
    /\ Len(resBatches[1]) = 2 /\ Len(resBatches[2]) = 2 /\ Len(resBatches[3]) = 1

\* the rows the record model accepts (LogEntry.level is one of Levels)
ValidRows(rows) == SelectSeq(rows, LAMBDA r : r.level \in Levels)

\* C23: during a transfer each row of a batch is re-validated against the
\* record model before it is forwarded: a row that fails validation is
\* skipped, the other rows of the batch are forwarded.
C23_InvalidRowsSkipped ==
    lastOp = "resource" =>
        Flatten(resBatches) = ValidRows(SubSeq(resRows, 1, resPos))

(***************************************************************************)
(* The store during a transfer.                                            *)
(***************************************************************************)
StoreWrites(tr) == Cardinality({k \in DOMAIN tr : tr[k].ev = "store_write"})

C25_MergeIdempotentAndConfigured ==
    (lastOp = "resource" /\ resPc = "idle" /\ resLoads >= 1) =>
        /\ ResourceDisposition(athCfg) = "merge" =>
              /\ resDest = resRows
              /\ \A i, j \in DOMAIN resDest :
                    resDest[i].dlt_id = resDest[j].dlt_id => i = j
        /\ \A mode \in {"append", "merge"} :
              \E cfg \in AthConfigs : ResourceDisposition(cfg) = mode

(***************************************************************************)
(* Properties of the workflow.                                             *)
(***************************************************************************)
DestinationCalls(tr) == Cardinality({k \in DOMAIN tr : tr[k].ev \in DestinationEvents})

\* C26: the transfer is never started implicitly.  No log call, logger
\* creation or setup_logging call starts a transfer or runs a destination
\* write; a destination call happens only inside a transfer that was
\* called; step 4 of the workflow calls the transfer only when
\* athena_destination is true, and otherwise succeeds without calling it.
C26_NoImplicitTransfer ==
    [][/\ (steps' # steps /\ lastOp' \in LogOps \cup {"setup_logging", "get_logger",
                                                     "workflow_init"})
           => /\ athPc' = "idle" /\ athTrace' = athTrace
              /\ athDest' = athDest /\ resDest' = resDest
       /\ (athDest' # athDest \/ athPc' \notin {"idle", athPc}
             \/ (steps' = steps /\ DestinationCalls(athTrace') > DestinationCalls(athTrace)))
           => lastOp' = "transfer"
       /\ (steps' # steps /\ lastOp' = "transfer")
           => \/ wfStep4 # "calling" /\ wfStep4' \in {"absent", "none"}
              \/ wfStep4 = "calling" /\ wfStep4' = "called"
       /\ wfStep4' = "calling" => wfConfig.athena_destination
       /\ (steps' # steps /\ lastOp' = "step_4" /\ ~wfConfig.athena_destination)
           => /\ wfStep4' \in {"skipped", "error"}
              /\ wfStep4' = "skipped" => Step4Return' = "true"
              /\ athPc' = "idle" /\ athTrace' = athTrace /\ athDest' = athDest]_vars

C26_Witness ==
    /\ lastOp = "step_4" /\ wfStep4 = "skipped" /\ Step4Return = "true"
    /\ ~wfConfig.athena_destination
    /\ Len(resRows) = 2 /\ athTrace = <<>> /\ athDest = <<>>

(***************************************************************************)
(* Properties of the inspection query.                                     *)
(***************************************************************************)
\* C27: with the remote destination disabled and any configured
\* table_name, after n log_action calls (all of them stored, under one
\* configuration) the inspection query reports total_logs = n, and the n
\* stored rows carry the same run_id.
C27_TotalLogsCountsLogActions ==
    (/\ lastOp = "get_database_info" /\ ~config.athena.athena_destination
     /\ failures = {} /\ builtTotal = 1 /\ AllRecords # {}
     /\ \A r \in AllRecords : loggers[r.logger].config = config)
    => /\ dbInfo.has_total
       /\ dbInfo.total_logs = Cardinality(AllRecords)
       /\ \A r1, r2 \in AllRecords : r1.run_id = r2.run_id

(***************************************************************************)
(* Properties of the record model.                                         *)
(***************************************************************************)
\* C28: constructing a LogEntry with a level outside {DEBUG, INFO, WARNING,
\* ERROR, CRITICAL} fails with a validation error, an omitted level
\* defaults to INFO, and every constructed record has a level of the five.
C28_LevelIsOneOfFive ==
    lastOp = "LogEntry" =>
        /\ (entry.level.given /\ entry.level.v \notin
                {"DEBUG", "INFO", "WARNING", "ERROR", "CRITICAL"}) => ~entry.ok
        /\ (entry.ok /\ ~entry.level.given) => entry.rec_level = "INFO"
        /\ entry.ok => entry.rec_level \in {"DEBUG", "INFO", "WARNING", "ERROR", "CRITICAL"}
        /\ (entry.ok /\ entry.level.given) => entry.rec_level = entry.level.v

C28_Witness ==
    /\ lastOp = "LogEntry" /\ steps = 2 /\ raised /\ ~entry.ok
    /\ entry.level = [given |-> TRUE, v |-> "INVALID"]
    /\ entry.context = [given |-> FALSE, v |-> PyNone]

\* the level argument of the last construction passes (not given, or of the five)
LevelFine == ~entry.level.given \/ entry.level.v \in {"DEBUG", "INFO", "WARNING", "ERROR", "CRITICAL"}

EmptyMapping == [t |-> "dict", s |-> "", items |-> {}]

RawOf(text) == [t |-> "dict", s |-> "",
                items |-> {<<[t |-> "str", s |-> "raw"], [t |-> "str", s |-> text]>>}]

\* the mapping '{"key": "value", "number": 42}' encodes
DecodedObject == [t |-> "dict", s |-> "",
                  items |-> {<<[t |-> "str", s |-> "key"], [t |-> "str", s |-> "value"]>>,
                             <<[t |-> "str", s |-> "number"], [t |-> "int", s |-> "42"]>>}]

\* C29: the LogEntry that declares context (src/tp_logger/models.py)
\* normalizes a given context by cases: None or the empty string gives the
\* empty mapping; a string that is not valid JSON gives {"raw": the string};
\* a string that is the JSON encoding of an object gives the decoded
\* mapping; a mapping (with string keys) is accepted and kept unchanged.
C29_ContextNormalizedByCases ==
    (lastOp = "LogEntry" /\ entry.model = "tp_logger" /\ entry.context.given /\ LevelFine) =>
        LET v == entry.context.v IN
        /\ (v.t = "none" \/ (v.t = "str" /\ v.s = "empty")) =>
               entry.ok /\ entry.rec_context = EmptyMapping
        /\ (v.t = "str" /\ v.s \in {"words", "truncated", "intkey", "trailing"}) =>
               entry.ok /\ entry.rec_context = RawOf(v.s)
        /\ (v.t = "str" /\ v.s = "object") =>
               entry.ok /\ entry.rec_context = DecodedObject
        /\ (v.t = "str" /\ v.s = "object0") =>
               entry.ok /\ entry.rec_context = EmptyMapping
        /\ (v.t = "dict" /\ \A i \in v.items : i[1].t = "str") =>
               entry.ok /\ entry.rec_context = v
        /\ (v.t = "dict" /\ entry.ok) => entry.rec_context = v

C29_Witness ==
    /\ lastOp = "LogEntry" /\ steps = 2 /\ entry.model = "tp_logger" /\ entry.ok
    /\ entry.context = [given |-> TRUE, v |-> [t |-> "str", s |-> "truncated", items |-> {}]]
    /\ entry.rec_context = RawOf("truncated")

\* C30: for every context input, either the construction fails or the
\* constructed record has a context and it is a mapping with string keys,
\* never a bare string or another JSON value.
C30_ContextIsAlwaysMapping ==
    (lastOp = "LogEntry" /\ entry.ok) =>
        /\ "context" \in entry.fields
        /\ entry.rec_context.t = "dict"
        /\ \A i \in entry.rec_context.items : i[1].t = "str"

\* The same for the LogEntry that declares context alone: a string that is
\* JSON for a number, a list, a quoted string or null fails the construction.
C30_ContextIsMappingWhereDeclared ==
    (lastOp = "LogEntry" /\ entry.model = "tp_logger") =>
        /\ entry.ok =>
              /\ "context" \in entry.fields
              /\ entry.rec_context.t = "dict"
              /\ \A i \in entry.rec_context.items : i[1].t = "str"
        /\ (entry.context.given /\ entry.context.v.t = "str"
              /\ entry.context.v.s \in {"number", "list", "quoted", "null"}) => ~entry.ok

C30_NonObjectJsonRejected ==
    /\ lastOp = "LogEntry" /\ entry.model = "tp_logger" /\ ~entry.ok /\ LevelFine
    /\ entry.context = [given |-> TRUE, v |-> [t |-> "str", s |-> "list", items |-> {}]]

\* the value is absent (None) or an integer >= 0
AbsentOrNonNegative(v) == v.t = "none" \/ (v.t = "int" /\ v.n >= 0)

\* C31: constructing a LogEntry with a negative duration_ms or a negative
\* status_code fails with a validation error naming the field, and every
\* constructed record has duration_ms and status_code absent or >= 0.
C31_NegativeNumbersRejected ==
    lastOp = "LogEntryNumbers" =>
        LET n == entry.numbers IN
        /\ (n.status_code.given /\ n.status_code.v.t = "int" /\ n.status_code.v.n < 0) =>
               ~entry.ok /\ "status_code" \in n.errors
        /\ (n.duration_ms.given /\ n.duration_ms.v.t = "int" /\ n.duration_ms.v.n < 0) =>
               ~entry.ok /\ "duration_ms" \in n.errors
        /\ entry.ok => /\ AbsentOrNonNegative(n.rec_status_code)
                       /\ AbsentOrNonNegative(n.rec_duration_ms)

(***************************************************************************)
(* Properties of the configuration.                                        *)
(***************************************************************************)
\* the keyword arguments do not make a valid configuration
InvalidKwargs(kw) ==
    \/ kw.athena.athena_destination
          /\ ~(kw.athena.aws_region /\ kw.athena.athena_database
                /\ kw.athena.athena_s3_staging_bucket)
    \/ kw.sync_to_s3 /\ ~kw.aws_s3_bucket

Msgs(seq) == [i \in DOMAIN seq |-> seq[i].msg]

\* what the wrappers are to emit and hand back, given that the body ran
OrderedExit ==
    /\ wrap.body = "returns" =>
          /\ Msgs(wrap.emitted) = <<"Starting", "Completed">>
          /\ wrap.emitted[2].success = "true" /\ wrap.emitted[2].duration
          /\ wrap.outcome = "returned" /\ wrap.value = wrap.result
    /\ wrap.body = "raises" =>
          /\ Msgs(wrap.emitted) = <<"Starting", "Exception", "Failed">>
          /\ wrap.emitted[3].level = "ERROR" /\ wrap.emitted[3].success = "false"
          /\ wrap.emitted[3].duration
          /\ wrap.outcome = "raised" /\ wrap.exc = "body"

\* C33: a function wrapped by log_execution and a block run under
\* timed_operation emit, on normal exit, a Starting record then exactly one
\* Completed record (success true, with duration_ms) and hand back the
\* result; on an exception a Starting record, the exception record, then
\* exactly one Failed record (ERROR, success false, with duration_ms), and
\* the same exception is re-raised.
C33_WrapperRecordsInOrder ==
    (lastOp \in {"log_execution", "timed_operation"} /\ wrap.ran) => OrderedExit

\* The same when log_kwargs names neither success nor duration_ms.
C33_OrderedUnlessKeywordTwice ==
    (lastOp \in {"log_execution", "timed_operation"} /\ wrap.ran
       /\ wrap.kw \cap {"success", "duration_ms"} = {}) => OrderedExit

C33_FailedExitReached ==
    /\ lastOp = "timed_operation" /\ wrap.ran /\ wrap.body = "raises"
    /\ wrap.kw = {"context"} /\ Len(wrap.emitted) = 3 /\ wrap.exc = "body"

(***************************************************************************)
(* Properties of the workflow.                                             *)
(***************************************************************************)
\* C34: run_complete_workflow runs steps 1, 2, 3, 4 in that order, runs a
\* step only if every earlier step returned success, and returns
\* overall_success = true exactly when all four steps ran and each returned
\* success; when it stops early the result keeps overall_success = false
\* and holds entries only for the steps that ran.
C34_StepsInOrderUntilFailure ==
    LET n == Len(wfRun.ran) IN
    /\ n <= 4 /\ \A i \in 1..n : wfRun.ran[i] = i
    /\ \A i \in 1..n : \A j \in 1..(i - 1) : wfRun.entries[j].success
    /\ Len(wfRun.entries) = n
    /\ \A i \in 1..n : wfRun.entries[i].name =
           <<"1_configuration", "2_sample_logs", "3_duckdb_verification",
             "4_athena_transfer">>[i]
    /\ ~wfRun.returned => ~wfRun.overall_success
    /\ wfRun.returned =>
          /\ n >= 1
          /\ wfRun.overall_success <=> (n = 4 /\ \A i \in 1..4 : wfRun.entries[i].success)
          /\ n < 4 => ~wfRun.entries[n].success

C34_Witness ==
    /\ wfRun.returned /\ Len(wfRun.ran) = 3 /\ ~wfRun.overall_success
    /\ wfRun.entries[1].success /\ wfRun.entries[2].success /\ ~wfRun.entries[3].success

C34_AllFourSucceed == wfRun.returned /\ wfRun.overall_success /\ Len(wfRun.ran) = 4

(***************************************************************************)
(* More properties of the connection manager.                              *)
(***************************************************************************)
\* the call has ended after open attempts that all failed lock-classified
LockedOnEveryAttempt ==
    /\ pc = "idle" /\ lastOp = "get_db_connection"
    /\ Count("connect_fail") >= 1 /\ Count("connect_ok") = 0
    /\ Count("makedirs_raise") = 0
    /\ AllFailuresLockClassified

\* C35: when the store is locked on every attempt, get_db_connection makes
\* exactly max_retries open attempts and sleeps after every attempt but the
\* last, 2^i seconds after attempt i, for a total of 2^(max_retries-1) - 1
\* seconds (3 seconds for the default 3); and the seconds slept by a call
\* never exceed 2^max_retries - 1.
C35_ExhaustedBackoffTotal ==
    /\ LockedOnEveryAttempt =>
          LET m == call.max_retries
              fails == SelectSeq(trace, LAMBDA x : x.ev = "connect_fail")
              sleeps == SelectSeq(trace, LAMBDA x : x.ev = "sleep")
          IN /\ Len(fails) = m
             /\ \A i \in 1..m : fails[i].n = i - 1
             /\ Len(sleeps) = m - 1
             /\ \A i \in 1..(m - 1) : sleeps[i].n = 2 ^ (i - 1)
             /\ trace[Len(trace)].ev # "sleep"
             /\ \A i \in 1..(Len(trace) - 1) :
                   (trace[i].ev = "sleep") =>
                       \E j \in (i + 1)..Len(trace) : trace[j].ev = "connect_fail"
             /\ TotalSleep = 2 ^ (m - 1) - 1
             /\ (m = 3 => TotalSleep = 3)
    /\ TotalSleep <= 2 ^ call.max_retries - 1

C35_Witness ==
    /\ LockedOnEveryAttempt /\ call.max_retries = 3 /\ call.caller = "direct"
    /\ Count("connect_fail") = 3 /\ TotalSleep = 3 /\ ret = NoConn

(***************************************************************************)
(* Properties of the minimum level.                                        *)
(***************************************************************************)
Severity ==
    [l \in {"DEBUG", "INFO", "WARNING", "ERROR", "CRITICAL"} |->
        CASE l = "DEBUG" -> 1 [] l = "INFO" -> 2 [] l = "WARNING" -> 3
          [] l = "ERROR" -> 4 [] l = "CRITICAL" -> 5]

PrintedLast == \E k \in DOMAIN sink.shown : sink.shown[k] = steps

\* C36: every log call forwards exactly one record to the storage pipeline
\* whatever the configured minimum level: log_level filters only the
\* console sink, a DEBUG call under log_level = ERROR is still written to
\* the store, and disabling console logging does not stop storage.
C36_StorageIgnoresLogLevel ==
    (lastOp \in LogOps /\ lastCall.valid) =>
        LET lg == loggers[lastCall.logger] IN
        /\ ~raised
        /\ Cardinality(Events("run_ok") \cup Events("run_raise")) = 1
        /\ lastCall.rec.id = steps
        /\ lastCall.rec.level = MethodLevel[lastOp]
        /\ Events("run_ok") # {} => steps \in RowIds(written)
        /\ PrintedLast <=> (/\ lg.config.console_logging
                            /\ Severity[lastCall.rec.level] >= Severity[sink.level])

C36_Witness ==
    /\ lastOp = "debug" /\ lastCall.valid /\ steps = 3
    /\ loggers[lastCall.logger].config.log_level = "ERROR"
    /\ loggers[lastCall.logger].config.console_logging
    /\ sink.level = "ERROR" /\ ~PrintedLast
    /\ lastCall.events = <<"console", "run_ok">> /\ steps \in RowIds(written)

C36_StoredWithConsoleOff ==
    /\ lastOp = "info" /\ lastCall.valid
    /\ ~loggers[lastCall.logger].config.console_logging
    /\ lastCall.events = <<"run_ok">> /\ steps \in RowIds(written)

\* C37: a TPLogger keeps the configuration and the pipeline it captured at
\* construction.  No operation, setup_logging included, changes an existing
\* logger; a logger created by get_logger captures the configuration and
\* the pipeline current at that moment; and a log call on logger i takes
\* project_name and the console switch from the configuration logger i
\* captured and writes through the pipeline logger i captured.
C37_LoggerKeepsCapturedState ==
    [][ /\ \A i \in DOMAIN loggers :
              i \in DOMAIN loggers' /\ loggers'[i] = loggers[i]
        /\ Len(loggers') > Len(loggers) =>
              /\ Len(loggers') = Len(loggers) + 1
              /\ loggers'[Len(loggers')] = [config |-> config, pipeline |-> pipeline']
              /\ config' = config
        /\ (steps' = steps + 1 /\ lastOp' \in LevelMethods /\ lastCall'.valid) =>
              LET i == lastCall'.logger
                  lg == loggers[i]
                  evs == {lastCall'.events[k] : k \in DOMAIN lastCall'.events}
              IN /\ lastCall'.rec.project_name = lg.config.project_name
                 /\ ("console" \in evs) <=> lg.config.console_logging
                 /\ "run_ok" \in evs =>
                       \A t \in Targets :
                          written'[t] = IF t = Target(lg.pipeline)
                                          THEN Append(written[t], lastCall'.rec)
                                          ELSE written[t]
      ]_vars

\* a log call on a logger made before the latest setup_logging: the record
\* and the destination are those of the old configuration
C37_Witness ==
    /\ lastOp \in LevelMethods /\ lastCall.valid /\ ~raised
    /\ LET lg == loggers[lastCall.logger] IN
       /\ lg.config.project_name # config.project_name
       /\ lg.config.console_logging /\ ~config.console_logging
       /\ lg.pipeline.db_path # config.db_path
       /\ lastCall.rec.project_name = lg.config.project_name
       /\ lastCall.events = <<"console", "run_ok">>
       /\ Len(written[Target(lg.pipeline)]) = 1

\* two loggers made on either side of a setup_logging call differ
C37_NewLoggerUsesNewConfig ==
    /\ Len(loggers) = 2
    /\ loggers[1].config # loggers[2].config
    /\ loggers[1].pipeline # loggers[2].pipeline
    /\ loggers[2].config = config /\ loggers[2].pipeline = pipeline

EnhancedOps == {"info", "debug"} \cup ActionMethods

\* C38: once an INSERT of a DatabaseLogHandler has failed the handler is
\* unavailable for good: db_available never returns to true and no later
\* call on that handler executes an INSERT, while the console emission of
\* later log calls goes on; the handlers of other loggers, which hold the
\* same connection, are left as they were.
C38_FailedHandlerStaysOff ==
    [][ /\ \A i \in DOMAIN handlers :
              /\ i \in DOMAIN handlers'
              /\ handlers'[i].connection = handlers[i].connection
              /\ ~handlers[i].db_available => ~handlers'[i].db_available
        /\ (steps' = steps + 1 /\ lastOp' \in EnhancedOps) =>
              LET i == lastLog'.handler IN
              /\ lastLog'.failed => ~handlers'[i].db_available
              /\ ~handlers[i].db_available =>
                    /\ store' = store
                    /\ ~lastLog'.inserted /\ ~lastLog'.failed
              /\ lastLog'.consoleEnabled =>
                    /\ ~raised'
                    /\ console' = Append(console, [id |-> steps', logger |-> i])
              /\ \A j \in DOMAIN handlers : j # i => handlers'[j] = handlers[j]
      ]_vars

\* a log call on a handler that failed earlier: skipped, printed on the
\* console, and the second handler on the same connection still available
C38_Witness ==
    /\ lastOp \in EnhancedOps /\ Len(handlers) = 2
    /\ handlers[1].connection # NoConn
    /\ handlers[2].connection = handlers[1].connection
    /\ ~handlers[1].db_available /\ handlers[2].db_available
    /\ lastLog.handler = 1 /\ lastLog.skipped
    /\ console # <<>> /\ console[Len(console)] = [id |-> steps, logger |-> 1]

\* the second handler inserts after the first one has failed
C38_OtherHandlerInserts ==
    /\ lastOp \in EnhancedOps /\ Len(handlers) = 2
    /\ handlers[2].connection = handlers[1].connection
    /\ ~handlers[1].db_available
    /\ lastLog.handler = 2 /\ lastLog.inserted
    /\ Len(store[handlers[2].connection.path]) = 1

\* the level strings explored that name one of the five levels when case
\* is ignored, with the level they name
NamesLevel == {<<"info", "INFO">>, <<"Warning", "WARNING">>}

LastRow(h) == store[h.connection.path][Len(store[h.connection.path])]

\* C39: every row that log_spider_action, log_pipeline_action or
\* log_middleware_action inserts has a level among DEBUG, INFO, WARNING,
\* ERROR, CRITICAL: an absent level, or one that names none of the five
\* when case is ignored, becomes INFO when success is true and ERROR when it
\* is false, a level that names one of the five is stored in upper case,
\* and the call does not raise.
C39_ActionLevelIsOneOfFive ==
    /\ \A p \in Paths : \A k \in DOMAIN store[p] : store[p][k].level \in Levels
    /\ lastOp \in ActionMethods =>
          LET fallback == IF lastLog.success THEN "INFO" ELSE "ERROR"
              expected == IF \E nl \in NamesLevel : nl[1] = lastLog.given
                            THEN (CHOOSE nl \in NamesLevel : nl[1] = lastLog.given)[2]
                            ELSE fallback
          IN /\ ~raised
             /\ lastLog.level = expected \/ <<lastLog.level, expected>> \in NamesLevel
             /\ lastLog.inserted =>
                   LastRow(handlers[lastLog.handler]) =
                       [handler |-> lastLog.handler, level |-> expected]

C39_Witness ==
    /\ lastOp = "log_spider_action" /\ lastLog.given = "verbose" /\ ~lastLog.success
    /\ lastLog.inserted
    /\ LastRow(handlers[lastLog.handler]).level = "ERROR"

\* a level given in mixed case is stored in upper case; a loguru method
\* name that is not a level is replaced
C39_MixedCaseStoredUpper ==
    /\ lastOp = "log_pipeline_action" /\ lastLog.given = "Warning" /\ ~lastLog.success
    /\ lastLog.inserted
    /\ LastRow(handlers[lastLog.handler]).level = "WARNING"

C39_TraceReplaced ==
    /\ lastOp = "log_middleware_action" /\ lastLog.given = "TRACE" /\ lastLog.success
    /\ lastLog.inserted
    /\ LastRow(handlers[lastLog.handler]).level = "INFO"

====
